---- MODULE Spec2Model ----
(***************************************************************************)
(* A model of the js-compiler pipeline: AST -> IR lowering (src/ir/mod.rs) *)
(* and the stack-based VM that interprets the IR (src/vm/mod.rs).          *)
(* One behaviour is one run of the driver: an AST is lowered, a VM is      *)
(* built from the module, one function is invoked and interpreted one IR   *)
(* instruction per step.                                                   *)
(***************************************************************************)
EXTENDS Integers, Sequences, FiniteSets, TLC

VARIABLES
    ast,          \* parser::AST handed to lower_ast (its statements)
    module,       \* ir::IRModule, the result of lower_ast
    functions,    \* VMContext.functions
    stack,        \* VMContext.stack
    globals,      \* VMContext.globals
    frames,       \* VMContext.frames
    debug_trace,  \* VM.debug_trace
    output,       \* what native_print wrote to standard output
    entry,        \* the arguments of the driver's execute_function call
    return_value, \* what the driver's execute_function call returned
    status,       \* position of the driver
    lexer,        \* lexer::tokenize: its locals while it runs
    parser,       \* parser::Parser and the statements parse has collected
    wasm,         \* codegen::wasm::WasmGenerator and the module it is given
    x64,          \* codegen::CodeGenerator and the module it is given
    arm64         \* codegen::arm64::ARM64Generator and the module it is given

\* the VM and its driver, and the other stages of the compiler
backend == <<ast, module, functions, stack, globals, frames, debug_trace,
             output, entry, return_value, status>>
stages == <<lexer, parser, wasm, x64, arm64>>

vars == <<ast, module, functions, stack, globals, frames, debug_trace,
          output, entry, return_value, status, lexer, parser, wasm,
          x64, arm64>>

\* a stage that is not run in the behaviour at hand
Idle == [status |-> "idle"]

(***************************************************************************)
(* Bounds of the model.                                                    *)
(***************************************************************************)
MaxFib == 10
MaxLoop == 3
\* the most arguments of a call handed to the code generators
MaxArgs == 8

(***************************************************************************)
(* parser::Expression and parser::Statement.  Every node is a record of    *)
(* one shape: k the variant, s a name or operator, n a number, b a         *)
(* boolean, kids the sub-expressions, body and orelse statement lists,     *)
(* params the parameter names.                                             *)
(***************************************************************************)
Node(k, s, n, b, kids, body, orelse, params) ==
    [k |-> k, s |-> s, n |-> n, b |-> b, kids |-> kids, body |-> body,
     orelse |-> orelse, params |-> params]

ExprNumber(n) == Node("Number", "", n, FALSE, <<>>, <<>>, <<>>, <<>>)
ExprString(s) == Node("String", s, 0, FALSE, <<>>, <<>>, <<>>, <<>>)
ExprBoolean(b) == Node("Boolean", "", 0, b, <<>>, <<>>, <<>>, <<>>)
ExprNull == Node("Null", "", 0, FALSE, <<>>, <<>>, <<>>, <<>>)
Identifier(name) == Node("Identifier", name, 0, FALSE, <<>>, <<>>, <<>>, <<>>)
FunctionCall(name, arguments) ==
    Node("FunctionCall", name, 0, FALSE, arguments, <<>>, <<>>, <<>>)
BinaryOp(op, left, right) ==
    Node("BinaryOp", op, 0, FALSE, <<left, right>>, <<>>, <<>>, <<>>)
UnaryOp(op, expr) == Node("UnaryOp", op, 0, FALSE, <<expr>>, <<>>, <<>>, <<>>)
Conditional(condition, then_expr, else_expr) ==
    Node("Conditional", "", 0, FALSE, <<condition, then_expr, else_expr>>,
         <<>>, <<>>, <<>>)

Let(name, initializer) ==
    Node("Let", name, 0, FALSE, <<initializer>>, <<>>, <<>>, <<>>)
\* b tells whether else_branch is Some
If(condition, then_branch) ==
    Node("If", "", 0, FALSE, <<condition>>, then_branch, <<>>, <<>>)
IfElse(condition, then_branch, else_branch) ==
    Node("If", "", 0, TRUE, <<condition>>, then_branch, else_branch, <<>>)
While(condition, body) ==
    Node("While", "", 0, FALSE, <<condition>>, body, <<>>, <<>>)
FunctionDeclaration(name, params, body) ==
    Node("FunctionDeclaration", name, 0, FALSE, <<>>, body, <<>>, params)
\* b tells whether the returned expression is Some
ReturnSome(expr) == Node("Return", "", 0, TRUE, <<expr>>, <<>>, <<>>, <<>>)
ReturnNone == Node("Return", "", 0, FALSE, <<>>, <<>>, <<>>, <<>>)
Block(statements) == Node("Block", "", 0, FALSE, <<>>, statements, <<>>, <<>>)
ExpressionStatement(expr) ==
    Node("ExpressionStatement", "", 0, FALSE, <<expr>>, <<>>, <<>>, <<>>)

(***************************************************************************)
(* ir::Constant and ir::IRInstruction.  A number is an integer, or the     *)
(* NaN of the f64 type (s = "NaN").                                        *)
(***************************************************************************)
Tagged(t, n, s, b) == [t |-> t, n |-> n, s |-> s, b |-> b]

ConstNull == Tagged("Null", 0, "", FALSE)
ConstNumber(n) == Tagged("Number", n, "", FALSE)
ConstString(s) == Tagged("String", 0, s, FALSE)
ConstBoolean(b) == Tagged("Boolean", 0, "", b)

Ins(op, s, n, flag, c) == [op |-> op, s |-> s, n |-> n, flag |-> flag, c |-> c]

Pop == Ins("Pop", "", 0, FALSE, ConstNull)
Dup == Ins("Dup", "", 0, FALSE, ConstNull)
PushConst(c) == Ins("PushConst", "", 0, FALSE, c)
Load(name) == Ins("Load", name, 0, FALSE, ConstNull)
Store(name) == Ins("Store", name, 0, FALSE, ConstNull)
Binary(op) == Ins("Binary", op, 0, FALSE, ConstNull)
Unary(op) == Ins("Unary", op, 0, FALSE, ConstNull)
Label(l) == Ins("Label", l, 0, FALSE, ConstNull)
Jump(l) == Ins("Jump", l, 0, FALSE, ConstNull)
JumpIf(l) == Ins("JumpIf", l, 0, FALSE, ConstNull)
Call(name, argc) == Ins("Call", name, argc, FALSE, ConstNull)
Return(has_value) == Ins("Return", "", 0, has_value, ConstNull)

(***************************************************************************)
(* ir::IRBuilder.  Lowering a piece of the AST is described by what it     *)
(* does to the builder: the instructions it emits, in order, and the       *)
(* builder's label_counter afterwards.  panicked models the unwinding of   *)
(* panic!: the lowering has aborted.                                       *)
(***************************************************************************)
IRFunction(name) ==
    [name |-> name, params |-> <<>>, max_stack |-> 0, max_locals |-> 0,
     instructions |-> <<>>]

Emitted(instructions, label_counter) ==
    [instructions |-> instructions, label_counter |-> label_counter,
     panicked |-> FALSE]

Panicked(label_counter) ==
    [instructions |-> <<>>, label_counter |-> label_counter,
     panicked |-> TRUE]

\* two lowerings in sequence, the second started at the counter the first
\* left
Then(first, second) ==
    IF first.panicked THEN first
    ELSE IF second.panicked THEN second
    ELSE Emitted(first.instructions \o second.instructions,
                 second.label_counter)

\* format!("L{}", n)
LabelName(n) == "L" \o ToString(n)

\* generate_label without `self.label_counter += 1`
generate_label_stuck(label_counter) == label_counter

\* IRBuilder::generate_label: the counter after the call; the label
\* returned is LabelName of it
generate_label(label_counter) == label_counter + 1

\* IRBuilder::allocate_local and get_or_create_local on the builder's
\* local_vars (the names that have a slot) and next_local
allocate_local(locals, name) ==
    [local_vars |-> locals.local_vars \cup {name},
     next_local |-> locals.next_local + 1]

get_or_create_local(locals, name) ==
    IF name \in locals.local_vars THEN locals
    ELSE allocate_local(locals, name)

(***************************************************************************)
(* ir::lower_expression and ir::lower_statement.                           *)
(***************************************************************************)
RECURSIVE lower_expression(_, _)
RECURSIVE lower_arguments(_, _, _)

\* the `for arg in arguments` loop of the FunctionCall arm, from index i
lower_arguments(label_counter, arguments, i) ==
    IF i > Len(arguments) THEN Emitted(<<>>, label_counter)
    ELSE LET arg == arguments[i]
             first == IF arg.k = "Identifier"
                      THEN Emitted(<<Load(arg.s)>>, label_counter)
                      ELSE lower_expression(label_counter, arg)
         IN  IF first.panicked THEN first
             ELSE Then(first,
                       lower_arguments(first.label_counter, arguments, i + 1))

\* the `&&` arm of the operator match, entered after both operands
\* have been lowered
lower_and(label_counter) ==
    LET end_counter == generate_label(label_counter)
        end_label == LabelName(end_counter)
        false_counter == generate_label(end_counter)
        false_label == LabelName(false_counter)
    IN  Emitted(<<Dup, JumpIf(false_label), Pop, Jump(end_label),
                  Label(false_label), Label(end_label)>>,
                false_counter)

\* the `||` arm of the operator match
lower_or(label_counter) ==
    LET end_counter == generate_label(label_counter)
        end_label == LabelName(end_counter)
        true_counter == generate_label(end_counter)
        true_label == LabelName(true_counter)
    IN  Emitted(<<Dup, JumpIf(true_label), Pop, Jump(end_label),
                  Label(true_label), Label(end_label)>>,
                true_counter)

\* the operator match of the BinaryOp arm: the operators that map to an
\* ir::BinaryOp
BinaryOpOf(op) ==
    CASE op = "+" -> "Add"
      [] op = "-" -> "Sub"
      [] op = "*" -> "Mul"
      [] op = "/" -> "Div"
      [] op = "==" -> "Eq"
      [] op = "<" -> "Lt"
      [] op = ">" -> "Gt"
      [] op = "<=" -> "Le"
      [] op = ">=" -> "Ge"
      [] OTHER -> "unsupported"

\* the operator match and what follows it
lower_binary_op(label_counter, op) ==
    IF op = "&&" THEN lower_and(label_counter)
    ELSE IF op = "||" THEN lower_or(label_counter)
    ELSE IF BinaryOpOf(op) = "unsupported" THEN Panicked(label_counter)
    ELSE Emitted(<<Binary(BinaryOpOf(op))>>, label_counter)

lower_unary_op(label_counter, op) ==
    CASE op = "-" -> Emitted(<<Unary("Neg")>>, label_counter)
      [] op = "!" -> Emitted(<<Unary("Not")>>, label_counter)
      [] OTHER -> Panicked(label_counter)

\* the BinaryOp arm: left, right, then the operator
lower_binary(label_counter, expr) ==
    LET left == lower_expression(label_counter, expr.kids[1])
    IN  IF left.panicked THEN left
        ELSE LET right == lower_expression(left.label_counter, expr.kids[2])
             IN  IF right.panicked THEN right
                 ELSE Then(Then(left, right),
                           lower_binary_op(right.label_counter, expr.s))

\* the Conditional arm
lower_conditional(label_counter, expr) ==
    LET else_counter == generate_label(label_counter)
        else_label == LabelName(else_counter)
        end_counter == generate_label(else_counter)
        end_label == LabelName(end_counter)
        condition == lower_expression(end_counter, expr.kids[1])
    IN  IF condition.panicked THEN condition
        ELSE LET then_expr == lower_expression(condition.label_counter,
                                               expr.kids[2])
             IN  IF then_expr.panicked THEN then_expr
                 ELSE LET else_expr ==
                            lower_expression(then_expr.label_counter,
                                             expr.kids[3])
                      IN  IF else_expr.panicked THEN else_expr
                          ELSE Emitted(
                                condition.instructions
                                \o <<JumpIf(else_label)>>
                                \o then_expr.instructions
                                \o <<Jump(end_label), Label(else_label)>>
                                \o else_expr.instructions
                                \o <<Label(end_label)>>,
                                else_expr.label_counter)

lower_expression(label_counter, expr) ==
    CASE expr.k = "Number" ->
            Emitted(<<PushConst(ConstNumber(expr.n))>>, label_counter)
      [] expr.k = "String" ->
            Emitted(<<PushConst(ConstString(expr.s))>>, label_counter)
      [] expr.k = "Boolean" ->
            Emitted(<<PushConst(ConstBoolean(expr.b))>>, label_counter)
      [] expr.k = "Null" -> Emitted(<<PushConst(ConstNull)>>, label_counter)
      [] expr.k = "Identifier" -> Emitted(<<Load(expr.s)>>, label_counter)
      [] expr.k = "FunctionCall" ->
            LET arguments == lower_arguments(label_counter, expr.kids, 1)
            IN  Then(arguments,
                     Emitted(<<Call(expr.s, Len(expr.kids))>>,
                             arguments.label_counter))
      [] expr.k = "BinaryOp" -> lower_binary(label_counter, expr)
      [] expr.k = "UnaryOp" ->
            LET operand == lower_expression(label_counter, expr.kids[1])
            IN  Then(operand, lower_unary_op(operand.label_counter, expr.s))
      [] expr.k = "Conditional" -> lower_conditional(label_counter, expr)

RECURSIVE lower_statement(_, _)
RECURSIVE lower_statements(_, _, _)

\* a `for stmt in ...` loop over a statement list, from index i
lower_statements(label_counter, stmts, i) ==
    IF i > Len(stmts) THEN Emitted(<<>>, label_counter)
    ELSE LET first == lower_statement(label_counter, stmts[i])
         IN  IF first.panicked THEN first
             ELSE Then(first,
                       lower_statements(first.label_counter, stmts, i + 1))

\* the If arm without the Unary(Not) before JumpIf, as the While and
\* Conditional arms are written
lower_if_without_not(label_counter, stmt) ==
    LET else_counter == generate_label(label_counter)
        else_label == LabelName(else_counter)
        end_counter == generate_label(else_counter)
        end_label == LabelName(end_counter)
        condition == lower_expression(end_counter, stmt.kids[1])
    IN  IF condition.panicked THEN condition
        ELSE LET then_branch == lower_statements(condition.label_counter,
                                                 stmt.body, 1)
             IN  IF then_branch.panicked THEN then_branch
                 ELSE LET else_branch ==
                            IF stmt.b
                            THEN lower_statements(then_branch.label_counter,
                                                  stmt.orelse, 1)
                            ELSE Emitted(<<>>, then_branch.label_counter)
                      IN  IF else_branch.panicked THEN else_branch
                          ELSE Emitted(
                                condition.instructions
                                \o <<JumpIf(else_label)>>
                                \o then_branch.instructions
                                \o <<Jump(end_label), Label(else_label)>>
                                \o else_branch.instructions
                                \o <<Label(end_label)>>,
                                else_branch.label_counter)

\* the If arm
lower_if(label_counter, stmt) ==
    LET else_counter == generate_label(label_counter)
        else_label == LabelName(else_counter)
        end_counter == generate_label(else_counter)
        end_label == LabelName(end_counter)
        condition == lower_expression(end_counter, stmt.kids[1])
    IN  IF condition.panicked THEN condition
        ELSE LET then_branch == lower_statements(condition.label_counter,
                                                 stmt.body, 1)
             IN  IF then_branch.panicked THEN then_branch
                 ELSE LET else_branch ==
                            IF stmt.b
                            THEN lower_statements(then_branch.label_counter,
                                                  stmt.orelse, 1)
                            ELSE Emitted(<<>>, then_branch.label_counter)
                      IN  IF else_branch.panicked THEN else_branch
                          ELSE Emitted(
                                condition.instructions
                                \o <<Unary("Not"), JumpIf(else_label)>>
                                \o then_branch.instructions
                                \o <<Jump(end_label), Label(else_label)>>
                                \o else_branch.instructions
                                \o <<Label(end_label)>>,
                                else_branch.label_counter)

\* the While arm
lower_while(label_counter, stmt) ==
    LET start_counter == generate_label(label_counter)
        start_label == LabelName(start_counter)
        end_counter == generate_label(start_counter)
        end_label == LabelName(end_counter)
        condition == lower_expression(end_counter, stmt.kids[1])
    IN  IF condition.panicked THEN condition
        ELSE LET body == lower_statements(condition.label_counter,
                                          stmt.body, 1)
             IN  IF body.panicked THEN body
                 ELSE Emitted(
                        <<Label(start_label)>>
                        \o condition.instructions
                        \o <<JumpIf(end_label)>>
                        \o body.instructions
                        \o <<Jump(start_label), Label(end_label)>>,
                        body.label_counter)

lower_statement(label_counter, stmt) ==
    CASE stmt.k = "Return" ->
            IF stmt.b
            THEN LET expr == lower_expression(label_counter, stmt.kids[1])
                 IN  Then(expr, Emitted(<<Return(TRUE)>>, expr.label_counter))
            ELSE Emitted(<<Return(FALSE)>>, label_counter)
      [] stmt.k = "Let" ->
            LET initializer == lower_expression(label_counter, stmt.kids[1])
            IN  Then(initializer,
                     Emitted(<<Store(stmt.s)>>, initializer.label_counter))
      [] stmt.k = "ExpressionStatement" ->
            LET expr == lower_expression(label_counter, stmt.kids[1])
            IN  Then(expr, Emitted(<<Pop>>, expr.label_counter))
      [] stmt.k = "If" -> lower_if(label_counter, stmt)
      [] stmt.k = "While" -> lower_while(label_counter, stmt)
      [] stmt.k = "Block" -> lower_statements(label_counter, stmt.body, 1)
      [] stmt.k = "FunctionDeclaration" ->
            Emitted(<<PushConst(ConstString(stmt.s)), Store(stmt.s)>>,
                    label_counter)

\* the names the Let statements of a statement list hand to
\* get_or_create_local, in the order lowering meets them
RECURSIVE let_names(_, _)
let_names(stmts, i) ==
    IF i > Len(stmts) THEN <<>>
    ELSE LET stmt == stmts[i]
             here == CASE stmt.k = "Let" -> <<stmt.s>>
                       [] stmt.k = "If" ->
                            let_names(stmt.body, 1) \o let_names(stmt.orelse, 1)
                       [] stmt.k \in {"While", "Block"} ->
                            let_names(stmt.body, 1)
                       [] OTHER -> <<>>
         IN  here \o let_names(stmts, i + 1)

(***************************************************************************)
(* ir::lower_ast.                                                          *)
(***************************************************************************)
\* the `for param in params` loop of lower_ast: the Load/Store prologue
lower_params(params) ==
    Emitted([i \in 1..(2 * Len(params)) |->
                IF i % 2 = 1 THEN Load(params[(i + 1) \div 2])
                ELSE Store(params[i \div 2])],
            0)

\* the local slots of a function: every parameter is allocated, then each
\* Let name that has no slot yet
RECURSIVE allocate_params(_, _, _)
allocate_params(locals, params, i) ==
    IF i > Len(params) THEN locals
    ELSE allocate_params(allocate_local(locals, params[i]), params, i + 1)

RECURSIVE allocate_lets(_, _, _)
allocate_lets(locals, names, i) ==
    IF i > Len(names) THEN locals
    ELSE allocate_lets(get_or_create_local(locals, names[i]), names, i + 1)

\* a Return(false) appended after every body
add_implicit_return_always(instructions) ==
    Append(instructions, Return(FALSE))

\* the implicit return appended after the body
add_implicit_return(instructions) ==
    IF Len(instructions) > 0 /\ instructions[Len(instructions)].op = "Return"
    THEN instructions
    ELSE Append(instructions, Return(FALSE))

\* the FunctionDeclaration arm of lower_ast: the function added to the
\* module, and whether lowering it panicked
lower_function(decl) ==
    LET lowered == Then(lower_params(decl.params),
                        lower_statements(0, decl.body, 1))
        locals == allocate_lets(
                    allocate_params([local_vars |-> {}, next_local |-> 0],
                                    decl.params, 1),
                    let_names(decl.body, 1), 1)
    IN  [function |->
            [name |-> decl.s,
             params |-> decl.params,
             max_stack |-> 0,
             max_locals |-> locals.next_local,
             instructions |-> add_implicit_return(lowered.instructions)],
         panicked |-> lowered.panicked]

\* IRModule: the functions in the order of their declarations; panicked
\* when lowering aborted
lower_ast(statements) ==
    LET decls == SelectSeq(statements, LAMBDA st : st.k = "FunctionDeclaration")
        built == [i \in 1..Len(decls) |-> lower_function(decls[i])]
    IN  [functions |-> [i \in 1..Len(decls) |-> built[i].function],
         constants |-> <<>>,
         panicked |-> \E i \in 1..Len(decls) : built[i].panicked]

(***************************************************************************)
(* vm::Value.  Object values cannot be constructed from source and are     *)
(* left out.  A Number is an integer n, or NaN (s = "NaN"), or a quotient  *)
(* that is not an integer (s = "Fraction", n its floor).                   *)
(***************************************************************************)
ValueNull == Tagged("Null", 0, "", FALSE)
ValueNumber(n) == Tagged("Number", n, "", FALSE)
ValueNaN == Tagged("Number", 0, "NaN", FALSE)
ValueFraction(n) == Tagged("Number", n, "Fraction", FALSE)
ValueString(s) == Tagged("String", 0, s, FALSE)
ValueBoolean(b) == Tagged("Boolean", 0, "", b)
ValueUndefined == Tagged("Undefined", 0, "", FALSE)

IsNumber(v) == v.t = "Number"
IsExact(v) == v.t = "Number" /\ v.s = ""
IsString(v) == v.t = "String"

from_constant(constant) ==
    CASE constant.t = "Null" -> ValueNull
      [] constant.t = "Number" -> ValueNumber(constant.n)
      [] constant.t = "String" -> ValueString(constant.s)
      [] constant.t = "Boolean" -> ValueBoolean(constant.b)

to_boolean(value) ==
    CASE value.t = "Boolean" -> value.b
      [] value.t = "Number" -> value.s # "NaN" /\ ~(value.s = "" /\ value.n = 0)
      [] value.t = "String" -> value.s # ""
      [] value.t = "Null" -> FALSE
      [] value.t = "Undefined" -> FALSE

\* f64::to_string of an integral or NaN value; bool::to_string
to_string(value) ==
    CASE value.t = "String" -> value.s
      [] value.t = "Number" ->
            IF value.s = "NaN" THEN "NaN"
            ELSE IF value.s = "Fraction" THEN ToString(value.n) \o ".5"
            ELSE ToString(value.n)
      [] value.t = "Boolean" -> IF value.b THEN "true" ELSE "false"
      [] value.t = "Null" -> "null"
      [] value.t = "Undefined" -> "undefined"

\* f64 arithmetic on the modelled numbers: NaN is absorbing, a fraction
\* is not computed with further
Arith(a, b, exact) ==
    IF a.s = "NaN" \/ b.s = "NaN" THEN ValueNaN
    ELSE IF a.s = "Fraction" \/ b.s = "Fraction" THEN ValueFraction(0)
    ELSE ValueNumber(exact)

\* binary_add without the two arms that coerce the other operand
binary_add_same_tags(left, right) ==
    CASE IsNumber(left) /\ IsNumber(right) -> Arith(left, right, left.n + right.n)
      [] IsString(left) /\ IsString(right) -> ValueString(left.s \o right.s)
      [] OTHER -> ValueUndefined

binary_add(left, right) ==
    CASE IsNumber(left) /\ IsNumber(right) -> Arith(left, right, left.n + right.n)
      [] IsString(left) /\ IsString(right) -> ValueString(left.s \o right.s)
      [] IsString(left) /\ ~IsString(right) ->
            ValueString(left.s \o to_string(right))
      [] ~IsString(left) /\ IsString(right) ->
            ValueString(to_string(left) \o right.s)
      [] OTHER -> ValueUndefined

binary_sub(left, right) ==
    IF IsNumber(left) /\ IsNumber(right)
    THEN Arith(left, right, left.n - right.n)
    ELSE ValueUndefined

binary_mul(left, right) ==
    IF IsNumber(left) /\ IsNumber(right)
    THEN Arith(left, right, left.n * right.n)
    ELSE ValueUndefined

binary_div(left, right) ==
    IF IsNumber(left) /\ IsNumber(right)
    THEN IF right.s = "" /\ right.n = 0 THEN ValueNaN
         ELSE IF ~(IsExact(left) /\ IsExact(right))
              THEN Arith(left, right, 0)
         ELSE IF (left.n % right.n) = 0
              THEN LET q == (IF left.n < 0 THEN -left.n ELSE left.n)
                            \div (IF right.n < 0 THEN -right.n ELSE right.n)
                   IN  ValueNumber(IF (left.n < 0) = (right.n < 0) THEN q ELSE -q)
         ELSE ValueFraction(left.n \div right.n)
    ELSE ValueUndefined

\* (a - b).abs() < f64::EPSILON on the modelled numbers
NumberEq(a, b) == a.s = "" /\ b.s = "" /\ a.n = b.n

binary_eq(left, right) ==
    ValueBoolean(
        CASE IsNumber(left) /\ IsNumber(right) -> NumberEq(left, right)
          [] IsString(left) /\ IsString(right) -> left.s = right.s
          [] left.t = "Boolean" /\ right.t = "Boolean" -> left.b = right.b
          [] left.t = "Null" /\ right.t = "Null" -> TRUE
          [] left.t = "Undefined" /\ right.t = "Undefined" -> TRUE
          [] OTHER -> FALSE)

\* the strings the model compares, in the lexicographic (byte) order of
\* String's PartialOrd
StringOrder == <<"", "a", "ab", "b", "s", "x=">>

StringRank(s) == CHOOSE i \in 1..Len(StringOrder) : StringOrder[i] = s

NumberLt(a, b) == a.s = "" /\ b.s = "" /\ a.n < b.n
NumberLe(a, b) == a.s = "" /\ b.s = "" /\ a.n <= b.n

binary_lt(left, right) ==
    CASE IsNumber(left) /\ IsNumber(right) -> ValueBoolean(NumberLt(left, right))
      [] IsString(left) /\ IsString(right) ->
            ValueBoolean(StringRank(left.s) < StringRank(right.s))
      [] OTHER -> ValueUndefined

binary_gt(left, right) ==
    CASE IsNumber(left) /\ IsNumber(right) -> ValueBoolean(NumberLt(right, left))
      [] IsString(left) /\ IsString(right) ->
            ValueBoolean(StringRank(left.s) > StringRank(right.s))
      [] OTHER -> ValueUndefined

\* binary_ge and binary_le name their first parameter `right` and their
\* second `left`, and match on (left, right)
binary_ge(right, left) ==
    CASE IsNumber(left) /\ IsNumber(right) -> ValueBoolean(NumberLe(right, left))
      [] IsString(left) /\ IsString(right) ->
            ValueBoolean(StringRank(left.s) >= StringRank(right.s))
      [] OTHER -> ValueUndefined

\* binary_le comparing its parameters in the order they are named
binary_le_as_named(right, left) ==
    CASE IsNumber(left) /\ IsNumber(right) -> ValueBoolean(NumberLe(right, left))
      [] IsString(left) /\ IsString(right) ->
            ValueBoolean(StringRank(right.s) <= StringRank(left.s))
      [] OTHER -> ValueUndefined

binary_le(right, left) ==
    CASE IsNumber(left) /\ IsNumber(right) -> ValueBoolean(NumberLe(left, right))
      [] IsString(left) /\ IsString(right) ->
            ValueBoolean(StringRank(left.s) <= StringRank(right.s))
      [] OTHER -> ValueUndefined

binary_and(left, right) ==
    IF ~to_boolean(left) THEN ValueBoolean(FALSE)
    ELSE ValueBoolean(to_boolean(right))

binary_or(left, right) ==
    IF to_boolean(left) THEN ValueBoolean(TRUE)
    ELSE ValueBoolean(to_boolean(right))

unary_neg(operand) ==
    IF IsNumber(operand)
    THEN IF operand.s = "" THEN ValueNumber(-operand.n) ELSE operand
    ELSE ValueUndefined

unary_not(operand) == ValueBoolean(~to_boolean(operand))

\* the operator match of the Binary arm of execute_instruction: Ge and Le
\* are called with (right, left)
binary_result(op, left, right) ==
    CASE op = "Add" -> binary_add(left, right)
      [] op = "Sub" -> binary_sub(left, right)
      [] op = "Mul" -> binary_mul(left, right)
      [] op = "Div" -> binary_div(left, right)
      [] op = "Eq" -> binary_eq(left, right)
      [] op = "Lt" -> binary_lt(left, right)
      [] op = "Gt" -> binary_gt(left, right)
      [] op = "And" -> binary_and(left, right)
      [] op = "Or" -> binary_or(left, right)
      [] op = "Ge" -> binary_ge(right, left)
      [] op = "Le" -> binary_le(right, left)

unary_result(op, operand) ==
    CASE op = "Neg" -> unary_neg(operand)
      [] op = "Not" -> unary_not(operand)

(***************************************************************************)
(* vm::VMContext and vm::CallFrame.                                        *)
(***************************************************************************)
\* an empty HashMap<String, Value>
EmptyMap == [name \in {} |-> ValueUndefined]

\* HashMap::insert
MapInsert(map, name, value) ==
    [k \in DOMAIN map \cup {name} |-> IF k = name THEN value ELSE map[k]]

CallFrame_new(function, stack_base) ==
    [function |-> function, ip |-> 0, locals |-> EmptyMap,
     stack_base |-> stack_base]

\* VMContext::new: the function table, print first, then the module's
\* functions in order, a later function replacing an earlier one of its
\* name
VMContext_functions(m) ==
    LET names == {"print"} \cup {m.functions[i].name : i \in 1..Len(m.functions)}
        last(name) == CHOOSE i \in 1..Len(m.functions) :
                        /\ m.functions[i].name = name
                        /\ \A j \in (i + 1)..Len(m.functions) :
                              m.functions[j].name # name
    IN  [name \in names |->
            IF \E i \in 1..Len(m.functions) : m.functions[i].name = name
            THEN [kind |-> "IR", function |-> m.functions[last(name)]]
            ELSE [kind |-> "Native", function |-> IRFunction("print")]]

\* VMContext::push
push(stk, value) == Append(stk, value)

\* VMContext::pop: the value popped, and the stack left
pop_value(stk) == IF Len(stk) = 0 THEN ValueUndefined ELSE stk[Len(stk)]
pop_rest(stk) == IF Len(stk) = 0 THEN stk ELSE SubSeq(stk, 1, Len(stk) - 1)

\* Vec::truncate
truncate(stk, len) == IF len < Len(stk) THEN SubSeq(stk, 1, len) ELSE stk

CurrentFrame == frames[Len(frames)]

\* get_local reading the outermost frame (frames.first()) instead of the
\* current one
get_local_outermost(name) ==
    IF Len(frames) > 0 /\ name \in DOMAIN frames[1].locals
    THEN frames[1].locals[name]
    ELSE IF name \in DOMAIN globals THEN globals[name]
    ELSE ValueUndefined

\* get_local looking in the globals before the frame's locals
get_local_globals_first(name) ==
    IF name \in DOMAIN globals THEN globals[name]
    ELSE IF Len(frames) > 0 /\ name \in DOMAIN CurrentFrame.locals
    THEN CurrentFrame.locals[name]
    ELSE ValueUndefined

\* VMContext::get_local
get_local(name) ==
    IF Len(frames) > 0 /\ name \in DOMAIN CurrentFrame.locals
    THEN CurrentFrame.locals[name]
    ELSE IF name \in DOMAIN globals THEN globals[name]
    ELSE ValueUndefined

\* VMContext::set_local: the frames and the globals after the call
set_local_frames(frms, name, value) ==
    IF Len(frms) > 0 /\ name \in DOMAIN frms[Len(frms)].locals
    THEN [frms EXCEPT ![Len(frms)].locals = MapInsert(@, name, value)]
    ELSE frms

set_local_globals(frms, glb, name, value) ==
    IF Len(frms) > 0 /\ name \in DOMAIN frms[Len(frms)].locals
    THEN glb
    ELSE MapInsert(glb, name, value)

\* VM::find_label: the position (from 0) of the first Label(label), or -1
\* for None
find_label(function, label) ==
    LET hits == {i \in 1..Len(function.instructions) :
                    /\ function.instructions[i].op = "Label"
                    /\ function.instructions[i].s = label}
    IN  IF hits = {} THEN -1
        ELSE (CHOOSE i \in hits : \A j \in hits : i <= j) - 1

\* the parameter binding loop of execute_function:
\* params.iter().zip(args), a later binding of a name replacing an earlier
bind_parameters(params, args) ==
    LET m == IF Len(params) < Len(args) THEN Len(params) ELSE Len(args)
        last(name) == CHOOSE i \in 1..m :
                        /\ params[i] = name
                        /\ \A j \in (i + 1)..m : params[j] # name
    IN  [name \in {params[i] : i \in 1..m} |-> args[last(name)]]

\* DebugTrace::add_frame, called at the head of execute_instruction: the
\* trace keeps the instruction, its position and the function's name
add_frame(trace, instruction) ==
    IF trace.some
    THEN [trace EXCEPT !.frames =
            Append(@, [instruction |-> instruction,
                       ip |-> CurrentFrame.ip,
                       function_name |-> CurrentFrame.function.name])]
    ELSE trace

\* native_print: the line written
native_print(args) ==
    [i \in 1..Len(args) |-> to_string(args[i])]

(***************************************************************************)
(* The driver: lower_ast, VM::new, enable_debugging, execute_function.     *)
(***************************************************************************)
\* the instruction the loop of execute_function fetches
Running == status = "running" /\ Len(frames) > 0
Fetching ==
    /\ Running
    /\ CurrentFrame.ip < Len(CurrentFrame.function.instructions)
Instruction == CurrentFrame.function.instructions[CurrentFrame.ip + 1]

\* current_frame.ip += 1
Advanced == [frames EXCEPT ![Len(frames)].ip = @ + 1]

\* an instruction that touches neither the frames (but for ip) nor anything
\* outside the stack
Step(op) ==
    /\ Fetching
    /\ Instruction.op = op
    /\ debug_trace' = add_frame(debug_trace, Instruction)

LowerAst ==
    /\ status = "parsed"
    /\ module' = lower_ast(ast)
    /\ status' = IF module'.panicked THEN "panicked" ELSE "lowered"
    /\ UNCHANGED <<ast, functions, stack, globals, frames, debug_trace,
                   output, entry, return_value>>
    /\ UNCHANGED stages

VM_new ==
    /\ status \in {"lowered", "assembled"}
    /\ functions' = VMContext_functions(module)
    /\ stack' = <<>>
    /\ globals' = EmptyMap
    /\ frames' = <<>>
    /\ debug_trace' = [some |-> FALSE, frames |-> <<>>]
    /\ status' = "ready"
    /\ UNCHANGED <<ast, module, output, entry, return_value>>
    /\ UNCHANGED stages

enable_debugging ==
    /\ status = "ready"
    /\ ~debug_trace.some
    /\ debug_trace' = [some |-> TRUE, frames |-> <<>>]
    /\ UNCHANGED <<ast, module, functions, stack, globals, frames, output,
                   entry, return_value, status>>
    /\ UNCHANGED stages

\* a test driver, which calls test, may bind the global before the call as
\* test_variable_scoping does:
\* vm.context.globals.insert("global", Value::Number(10.0))
insert_global ==
    /\ status = "ready"
    /\ entry.name = "test"
    /\ "global" \notin DOMAIN globals
    /\ globals' = MapInsert(globals, "global", ValueNumber(10))
    /\ UNCHANGED <<ast, module, functions, stack, frames, debug_trace,
                   output, entry, return_value, status>>
    /\ UNCHANGED stages

\* the entry of execute_function for an IR function: the frame pushed
enter_function(function, args, stack_base) ==
    [CallFrame_new(function, stack_base) EXCEPT
        !.locals = bind_parameters(function.params, args)]

\* the driver's call vm.execute_function(name, args)
execute_function ==
    /\ status = "ready"
    /\ IF entry.name \notin DOMAIN functions
       THEN /\ status' = "panicked"
            /\ UNCHANGED <<frames, return_value, output>>
       ELSE IF functions[entry.name].kind = "Native"
       THEN /\ status' = "returned"
            /\ return_value' = ValueUndefined
            /\ output' = Append(output, native_print(entry.args))
            /\ UNCHANGED frames
       ELSE /\ status' = "running"
            /\ frames' = Append(frames,
                    enter_function(functions[entry.name].function,
                                   entry.args, Len(stack)))
            /\ UNCHANGED <<return_value, output>>
    /\ UNCHANGED <<ast, module, functions, stack, globals, debug_trace, entry>>
    /\ UNCHANGED stages

(***************************************************************************)
(* VM::execute_instruction, one action per instruction kind.               *)
(***************************************************************************)
ExecPop ==
    /\ Step("Pop")
    /\ stack' = pop_rest(stack)
    /\ frames' = Advanced
    /\ UNCHANGED <<ast, module, functions, globals, output, entry,
                   return_value, status>>
    /\ UNCHANGED stages

ExecDup ==
    /\ Step("Dup")
    /\ stack' = push(stack, pop_value(stack))
    /\ frames' = Advanced
    /\ UNCHANGED <<ast, module, functions, globals, output, entry,
                   return_value, status>>
    /\ UNCHANGED stages

ExecPushConst ==
    /\ Step("PushConst")
    /\ stack' = push(stack, from_constant(Instruction.c))
    /\ frames' = Advanced
    /\ UNCHANGED <<ast, module, functions, globals, output, entry,
                   return_value, status>>
    /\ UNCHANGED stages

ExecLoad ==
    /\ Step("Load")
    /\ stack' = push(stack, get_local(Instruction.s))
    /\ frames' = Advanced
    /\ UNCHANGED <<ast, module, functions, globals, output, entry,
                   return_value, status>>
    /\ UNCHANGED stages

ExecStore ==
    /\ Step("Store")
    /\ stack' = pop_rest(stack)
    /\ frames' = set_local_frames(Advanced, Instruction.s, pop_value(stack))
    /\ globals' = set_local_globals(Advanced, globals, Instruction.s,
                                    pop_value(stack))
    /\ UNCHANGED <<ast, module, functions, output, entry, return_value,
                   status>>
    /\ UNCHANGED stages

ExecBinary ==
    /\ Step("Binary")
    /\ LET right == pop_value(stack)
           left == pop_value(pop_rest(stack))
       IN  stack' = push(pop_rest(pop_rest(stack)),
                         binary_result(Instruction.s, left, right))
    /\ frames' = Advanced
    /\ UNCHANGED <<ast, module, functions, globals, output, entry,
                   return_value, status>>
    /\ UNCHANGED stages

ExecUnary ==
    /\ Step("Unary")
    /\ stack' = push(pop_rest(stack),
                     unary_result(Instruction.s, pop_value(stack)))
    /\ frames' = Advanced
    /\ UNCHANGED <<ast, module, functions, globals, output, entry,
                   return_value, status>>
    /\ UNCHANGED stages

ExecLabel ==
    /\ Step("Label")
    /\ frames' = Advanced
    /\ UNCHANGED <<ast, module, functions, stack, globals, output, entry,
                   return_value, status>>
    /\ UNCHANGED stages

\* the frames after a taken jump to label
jump_to(label) ==
    LET pos == find_label(CurrentFrame.function, label)
    IN  IF pos >= 0 THEN [frames EXCEPT ![Len(frames)].ip = pos]
        ELSE Advanced

ExecJump ==
    /\ Step("Jump")
    /\ frames' = jump_to(Instruction.s)
    /\ UNCHANGED <<ast, module, functions, stack, globals, output, entry,
                   return_value, status>>
    /\ UNCHANGED stages

\* matches!(self.context.pop(), Value::Boolean(true))
\* a JumpIf that branches on every truthy value
jump_condition_truthy(value) == to_boolean(value)

jump_condition(value) == value = ValueBoolean(TRUE)

ExecJumpIf ==
    /\ Step("JumpIf")
    /\ stack' = pop_rest(stack)
    /\ frames' = IF jump_condition(pop_value(stack))
                 THEN jump_to(Instruction.s)
                 ELSE Advanced
    /\ UNCHANGED <<ast, module, functions, globals, output, entry,
                   return_value, status>>
    /\ UNCHANGED stages

\* the arguments in the order repeated pop() gives them, last first
call_args_reversed(stk, argc) ==
    [i \in 1..argc |-> stk[Len(stk) - i + 1]]

\* the arguments Call drains from the stack, and the stack left
call_args(stk, argc) == SubSeq(stk, Len(stk) - argc + 1, Len(stk))
call_rest(stk, argc) == SubSeq(stk, 1, Len(stk) - argc)

\* `stack.len() - argc` underflows, or execute_function finds no function
CallPanics ==
    \/ Instruction.n > Len(stack)
    \/ Instruction.s \notin DOMAIN functions

\* Call of an IR function: execute_function pushes the callee's frame
ExecCall ==
    /\ Step("Call")
    /\ ~CallPanics
    /\ functions[Instruction.s].kind = "IR"
    /\ stack' = call_rest(stack, Instruction.n)
    /\ frames' = Append(Advanced,
            enter_function(functions[Instruction.s].function,
                           call_args(stack, Instruction.n),
                           Len(stack) - Instruction.n))
    /\ UNCHANGED <<ast, module, functions, globals, output, entry,
                   return_value, status>>
    /\ UNCHANGED stages

\* Call of a native function: its result is pushed at once
ExecCallNative ==
    /\ Step("Call")
    /\ ~CallPanics
    /\ functions[Instruction.s].kind = "Native"
    /\ output' = Append(output, native_print(call_args(stack, Instruction.n)))
    /\ stack' = push(call_rest(stack, Instruction.n), ValueUndefined)
    /\ frames' = Advanced
    /\ UNCHANGED <<ast, module, functions, globals, entry, return_value,
                   status>>
    /\ UNCHANGED stages

ExecCallPanic ==
    /\ Step("Call")
    /\ CallPanics
    /\ status' = "panicked"
    /\ frames' = Advanced
    /\ UNCHANGED <<ast, module, functions, stack, globals, output, entry,
                   return_value>>
    /\ UNCHANGED stages

\* the value a frame returns: Return(true) pops it, Return(false) gives
\* Undefined, running off the end gives what is left above stack_base
frame_return_value ==
    IF Fetching
    THEN IF Instruction.flag THEN pop_value(stack) ELSE ValueUndefined
    ELSE IF Len(stack) > CurrentFrame.stack_base THEN pop_value(stack)
         ELSE ValueUndefined

\* the return epilogue without `stack.truncate(stack_base)`
frame_return_stack_untruncated ==
    IF Fetching
    THEN IF Instruction.flag THEN pop_rest(stack) ELSE stack
    ELSE IF Len(stack) > CurrentFrame.stack_base
         THEN pop_rest(stack) ELSE stack

\* the stack when the frame has returned, before the caller pushes
frame_return_stack ==
    LET popped == IF Fetching
                  THEN IF Instruction.flag THEN pop_rest(stack) ELSE stack
                  ELSE IF Len(stack) > CurrentFrame.stack_base
                       THEN pop_rest(stack) ELSE stack
    IN  truncate(popped, CurrentFrame.stack_base)

\* the end of a frame in the loop of execute_function: an explicit Return
\* or ip past the last instruction.  The frame is popped and the stack
\* truncated; execute_function returns the value to the Call that invoked
\* it, which pushes it, or to the driver.
ExecReturn ==
    /\ Running
    /\ Fetching => Instruction.op = "Return"
    /\ frames' = SubSeq(frames, 1, Len(frames) - 1)
    /\ IF Len(frames) > 1
       THEN /\ stack' = push(frame_return_stack, frame_return_value)
            /\ UNCHANGED <<return_value, status>>
       ELSE /\ stack' = frame_return_stack
            /\ return_value' = frame_return_value
            /\ status' = "returned"
    /\ UNCHANGED <<ast, module, functions, globals, debug_trace, output,
                   entry>>
    /\ UNCHANGED stages

(***************************************************************************)
(* The source programs the driver is run on, as the ASTs parse gives for   *)
(* them, each with the call the driver makes.                              *)
(***************************************************************************)
Literals ==
    {ExprNull, ExprBoolean(TRUE), ExprBoolean(FALSE), ExprNumber(0),
     ExprNumber(1), ExprString(""), ExprString("s")}

ArgValues ==
    {ValueNull, ValueUndefined, ValueBoolean(TRUE), ValueBoolean(FALSE),
     ValueNumber(0), ValueNumber(1), ValueNaN, ValueString(""),
     ValueString("s")}

ShortCircuitOps == {"&&", "||"}

Run(statements, name, args) ==
    [statements |-> statements, name |-> name, args |-> args]

\* function f() { return a; }  function g() { return b; }
\* function main() { return f() op g(); }
ShortCircuitCalls(op, a, b) ==
    <<FunctionDeclaration("f", <<>>, <<ReturnSome(a)>>),
      FunctionDeclaration("g", <<>>, <<ReturnSome(b)>>),
      FunctionDeclaration("main", <<>>,
        <<ReturnSome(BinaryOp(op, FunctionCall("f", <<>>),
                                  FunctionCall("g", <<>>)))>>)>>

\* function main(x, y) { return x op y; }
ShortCircuitOperands(op) ==
    <<FunctionDeclaration("main", <<"x", "y">>,
        <<ReturnSome(BinaryOp(op, Identifier("x"), Identifier("y")))>>)>>

\* function main() { return l op r; }
ShortCircuitLiterals(op, l, r) ==
    <<FunctionDeclaration("main", <<>>, <<ReturnSome(BinaryOp(op, l, r))>>)>>

Comparisons ==
    {BinaryOp("<", ExprNumber(1), ExprNumber(2)),
     BinaryOp(">", ExprNumber(3), ExprNumber(2))}

ShortCircuitRuns ==
    {Run(ShortCircuitCalls(op, a, b), "main", <<>>) :
        op \in ShortCircuitOps, a \in Literals, b \in Literals}
    \cup {Run(ShortCircuitOperands(op), "main", <<x, y>>) :
        op \in ShortCircuitOps, x \in ArgValues, y \in ArgValues}
    \cup {Run(ShortCircuitLiterals(op, l, r), "main", <<>>) :
        op \in ShortCircuitOps,
        l \in Comparisons \cup {ExprBoolean(TRUE), ExprBoolean(FALSE)},
        r \in Comparisons \cup {ExprBoolean(TRUE), ExprBoolean(FALSE)}}

\* function main(n) { let s = 0; let i = 1;
\*   while (i op n) { let s = s + i; let i = i + 1; } return s; }
SumLoop(op) ==
    <<FunctionDeclaration("main", <<"n">>,
        <<Let("s", ExprNumber(0)),
          Let("i", ExprNumber(1)),
          While(BinaryOp(op, Identifier("i"), Identifier("n")),
                <<Let("s", BinaryOp("+", Identifier("s"), Identifier("i"))),
                  Let("i", BinaryOp("+", Identifier("i"), ExprNumber(1)))>>),
          ReturnSome(Identifier("s"))>>)>>

\* the scenario of the specification: the loop guarded by i <= 5
SumLoopTo5 ==
    <<FunctionDeclaration("main", <<>>,
        <<Let("s", ExprNumber(0)),
          Let("i", ExprNumber(1)),
          While(BinaryOp("<=", Identifier("i"), ExprNumber(5)),
                <<Let("s", BinaryOp("+", Identifier("s"), Identifier("i"))),
                  Let("i", BinaryOp("+", Identifier("i"), ExprNumber(1)))>>),
          ReturnSome(Identifier("s"))>>)>>

\* The guard i <= n is run for n >= 1 and the guard i > n for n >= 0:
\* these are the runs in which the VM leaves the loop.
WhileRuns ==
    {Run(SumLoop("<="), "main", <<ValueNumber(n)>>) : n \in 1..MaxLoop}
    \cup {Run(SumLoop(">"), "main", <<ValueNumber(n)>>) : n \in 0..MaxLoop}
    \cup {Run(SumLoopTo5, "main", <<>>)}

\* function test(x) { if (x > 0) { return true; } else { return false; } }
IfPositive ==
    <<FunctionDeclaration("test", <<"x">>,
        <<IfElse(BinaryOp(">", Identifier("x"), ExprNumber(0)),
                 <<ReturnSome(ExprBoolean(TRUE))>>,
                 <<ReturnSome(ExprBoolean(FALSE))>>)>>)>>

\* function test(x) { if (x) { return "then"; } else { return "else"; } }
IfValue ==
    <<FunctionDeclaration("test", <<"x">>,
        <<IfElse(Identifier("x"),
                 <<ReturnSome(ExprString("then"))>>,
                 <<ReturnSome(ExprString("else"))>>)>>)>>

\* function test(x) { if (x) { print("then"); } print("after");
\*                    return "none"; }
IfNoElse ==
    <<FunctionDeclaration("test", <<"x">>,
        <<If(Identifier("x"),
             <<ExpressionStatement(
                 FunctionCall("print", <<ExprString("then")>>))>>),
          ExpressionStatement(FunctionCall("print", <<ExprString("after")>>)),
          ReturnSome(ExprString("none"))>>)>>

\* function test(x, y) { if (x) { if (y) { print("tt"); } else
\*   { print("tf"); } } else { if (y) { print("ft"); } } return "done"; }
IfNested ==
    <<FunctionDeclaration("test", <<"x", "y">>,
        <<IfElse(Identifier("x"),
             <<IfElse(Identifier("y"),
                 <<ExpressionStatement(
                     FunctionCall("print", <<ExprString("tt")>>))>>,
                 <<ExpressionStatement(
                     FunctionCall("print", <<ExprString("tf")>>))>>)>>,
             <<If(Identifier("y"),
                 <<ExpressionStatement(
                     FunctionCall("print", <<ExprString("ft")>>))>>)>>),
          ReturnSome(ExprString("done"))>>)>>

IfRuns ==
    {Run(IfPositive, "test", <<ValueNumber(n)>>) : n \in {-1, 0, 1, 2}}
    \cup {Run(IfPositive, "test", <<x>>) : x \in ArgValues}
    \cup {Run(IfValue, "test", <<x>>) : x \in ArgValues}
    \cup {Run(IfNoElse, "test", <<x>>) : x \in ArgValues}
    \cup {Run(IfNested, "test", <<x, y>>) : x \in ArgValues, y \in ArgValues}

\* function t() { print("t"); return "then"; }
\* function e() { print("e"); return "else"; }
\* function main(x) { return x ? t() : e(); }
TernaryCalls ==
    <<FunctionDeclaration("t", <<>>,
        <<ExpressionStatement(FunctionCall("print", <<ExprString("t")>>)),
          ReturnSome(ExprString("then"))>>),
      FunctionDeclaration("e", <<>>,
        <<ExpressionStatement(FunctionCall("print", <<ExprString("e")>>)),
          ReturnSome(ExprString("else"))>>),
      FunctionDeclaration("main", <<"x">>,
        <<ReturnSome(Conditional(Identifier("x"), FunctionCall("t", <<>>),
                                 FunctionCall("e", <<>>)))>>)>>

\* function main(x) { return c ? "then" : "else"; }
TernaryOf(c) ==
    <<FunctionDeclaration("main", <<"x">>,
        <<ReturnSome(Conditional(c, ExprString("then"),
                                 ExprString("else")))>>)>>

TernaryRuns ==
    {Run(TernaryCalls, "main", <<x>>) : x \in ArgValues}
    \cup {Run(TernaryOf(Identifier("x")), "main", <<x>>) : x \in ArgValues}
    \cup {Run(TernaryOf(BinaryOp(">", Identifier("x"), ExprNumber(0))),
              "main", <<x>>) : x \in ArgValues}

\* function fib(n) { if (n <= 1) { return n; }
\*                    return fib(n - 1) + fib(n - 2); }
\* function main() { return fib(10); }
Fib ==
    <<FunctionDeclaration("fib", <<"n">>,
        <<If(BinaryOp("<=", Identifier("n"), ExprNumber(1)),
             <<ReturnSome(Identifier("n"))>>),
          ReturnSome(BinaryOp("+",
            FunctionCall("fib", <<BinaryOp("-", Identifier("n"),
                                           ExprNumber(1))>>),
            FunctionCall("fib", <<BinaryOp("-", Identifier("n"),
                                           ExprNumber(2))>>)))>>),
      FunctionDeclaration("main", <<>>,
        <<ReturnSome(FunctionCall("fib", <<ExprNumber(10)>>))>>)>>

\* EXAMPLE_JS of main.rs
EXAMPLE_JS ==
    <<FunctionDeclaration("fibonacci", <<"n">>,
        <<If(BinaryOp("<=", Identifier("n"), ExprNumber(1)),
             <<ReturnSome(Identifier("n"))>>),
          ReturnSome(BinaryOp("+",
            FunctionCall("fibonacci", <<BinaryOp("-", Identifier("n"),
                                                 ExprNumber(1))>>),
            FunctionCall("fibonacci", <<BinaryOp("-", Identifier("n"),
                                                 ExprNumber(2))>>)))>>),
      FunctionDeclaration("main", <<>>,
        <<Let("n", ExprNumber(10)),
          Let("fib", FunctionCall("fibonacci", <<Identifier("n")>>)),
          ExpressionStatement(FunctionCall("print", <<Identifier("n")>>)),
          ExpressionStatement(FunctionCall("print", <<Identifier("fib")>>)),
          ReturnSome(Identifier("fib"))>>)>>

FibRuns ==
    {Run(Fib, "fib", <<ValueNumber(n)>>) : n \in 0..MaxFib}
    \cup {Run(EXAMPLE_JS, "main", <<>>)}

\* the bodies of the callee `callee(x, y)` of CallProgram
CalleeBodies ==
    {<<ReturnSome(BinaryOp("-", Identifier("x"), Identifier("y")))>>,
     <<ReturnNone>>,
     <<>>,
     <<ExpressionStatement(BinaryOp("&&", Identifier("x"), Identifier("y"))),
       ReturnSome(Identifier("x"))>>,
     <<Let("z", Identifier("x")),
       If(Identifier("y"), <<ReturnSome(Identifier("z"))>>)>>}

CallArguments == <<Identifier("a"), Identifier("b"), ExprString("s")>>

\* function callee(x, y) { body }
\* function main(a, b) { return 10 + callee(the first argc of a, b, "s"); }
CallProgram(body, argc) ==
    <<FunctionDeclaration("callee", <<"x", "y">>, body),
      FunctionDeclaration("main", <<"a", "b">>,
        <<ReturnSome(BinaryOp("+", ExprNumber(10),
            FunctionCall("callee", SubSeq(CallArguments, 1, argc))))>>)>>

\* function main() { return nope(1); }
CallUnknown ==
    <<FunctionDeclaration("main", <<>>,
        <<ReturnSome(FunctionCall("nope", <<ExprNumber(1)>>))>>)>>

CallRuns ==
    {Run(CallProgram(body, argc), "main", args) :
        body \in CalleeBodies, argc \in 0..3,
        args \in {<<ValueNumber(5), ValueNumber(3)>>,
                  <<ValueNumber(5), ValueBoolean(TRUE)>>,
                  <<ValueNumber(5)>>}}
    \cup {Run(CallUnknown, "main", <<>>),
          Run(CallUnknown, "nope", <<>>),
          Run(CallUnknown, "print", <<ValueNumber(1), ValueString("s")>>)}

\* function main(p) { let x = 1; let p = 2; let x = 3; return x + p; }
StoreProgram ==
    <<FunctionDeclaration("main", <<"p">>,
        <<Let("x", ExprNumber(1)),
          Let("p", ExprNumber(2)),
          Let("x", ExprNumber(3)),
          ReturnSome(BinaryOp("+", Identifier("x"), Identifier("p")))>>)>>

\* function inner(q) { let x = q; let q = 7; return x; }
\* function main(p) { let x = 1; let r = inner(p); return x; }
StoreNested ==
    <<FunctionDeclaration("inner", <<"q">>,
        <<Let("x", Identifier("q")),
          Let("q", ExprNumber(7)),
          ReturnSome(Identifier("x"))>>),
      FunctionDeclaration("main", <<"p">>,
        <<Let("x", ExprNumber(1)),
          Let("r", FunctionCall("inner", <<Identifier("p")>>)),
          ReturnSome(Identifier("x"))>>)>>

StoreRuns ==
    {Run(StoreProgram, "main", <<x>>) : x \in ArgValues}
    \cup {Run(StoreProgram, "main", <<>>)}
    \cup {Run(StoreNested, "main", <<x>>) : x \in ArgValues}

\* Programs that are lowered but whose control flow is not run: every
\* statement of nesting depth two over the expressions of depth one, in a
\* module of two functions that both need labels, and an empty function
\* idle that the driver calls.
Exprs0 == {Identifier("x")}

Exprs1 ==
    Exprs0
    \cup {BinaryOp(op, l, r) : op \in ShortCircuitOps, l \in Exprs0, r \in Exprs0}
    \cup {Conditional(c, t, e) : c \in Exprs0, t \in Exprs0, e \in Exprs0}

Stmts0 == {Let("y", Identifier("x")), ReturnNone}

Stmts1 ==
    Stmts0
    \cup {ReturnSome(e) : e \in Exprs1}
    \cup {ExpressionStatement(e) : e \in Exprs1}
    \cup {If(e, <<s>>) : e \in Exprs1, s \in Stmts0}
    \cup {IfElse(e, <<s>>, <<t>>) : e \in Exprs1, s \in Stmts0, t \in Stmts0}
    \cup {While(e, <<s>>) : e \in Exprs1, s \in Stmts0}

Stmts2 ==
    Stmts1
    \cup {If(e, <<s>>) : e \in Exprs1, s \in Stmts1}
    \cup {IfElse(e, <<s>>, <<t>>) : e \in Exprs1, s \in Stmts1, t \in Stmts0}
    \cup {While(e, <<s, t>>) : e \in Exprs1, s \in Stmts1, t \in Stmts0}
    \cup {Block(<<s, t>>) : s \in Stmts1, t \in Stmts0}

\* function main(x) { s  while (x) { let y = x && x; } }
\* function other(x) { if (x ? x : x) { return; } }
\* function idle() { }
NestedProgram(s) ==
    <<FunctionDeclaration("main", <<"x">>,
        <<s, While(Identifier("x"),
                   <<Let("y", BinaryOp("&&", Identifier("x"),
                                       Identifier("x")))>>)>>),
      FunctionDeclaration("other", <<"x">>,
        <<If(Conditional(Identifier("x"), Identifier("x"), Identifier("x")),
             <<ReturnNone>>)>>),
      FunctionDeclaration("idle", <<>>, <<>>)>>

NestedRuns == {Run(NestedProgram(s), "idle", <<>>) : s \in Stmts2}

\* Function bodies that end in each kind of statement, with and without a
\* Return as the last instruction emitted:
\* function main(x) { body }  function idle() { }
ReturnTails ==
    {<<>>,
     <<ReturnNone>>,
     <<ReturnSome(Identifier("x"))>>,
     <<ReturnNone, ReturnNone>>,
     <<Let("y", Identifier("x"))>>,
     <<ExpressionStatement(Identifier("x"))>>,
     <<If(Identifier("x"), <<ReturnNone>>)>>,
     <<IfElse(Identifier("x"), <<ReturnSome(Identifier("x"))>>,
              <<ReturnSome(Identifier("x"))>>)>>,
     <<While(Identifier("x"), <<ReturnNone>>)>>,
     <<Block(<<ReturnNone>>)>>,
     <<Block(<<Block(<<>>)>>)>>,
     <<ReturnNone, Block(<<>>)>>,
     <<Let("y", Identifier("x")), Block(<<ReturnSome(Identifier("y"))>>)>>,
     <<ReturnNone, FunctionDeclaration("inner", <<>>, <<ReturnNone>>)>>}

ReturnTailProgram(body) ==
    <<FunctionDeclaration("main", <<"x">>, body),
      FunctionDeclaration("idle", <<>>, <<>>)>>

ReturnTailRuns ==
    {Run(ReturnTailProgram(body), "idle", <<>>) : body \in ReturnTails}

\* let global = 10;
\* function test() { let local = 20; let result = local + global;
\*                   return result; }
VariableScoping ==
    <<Let("global", ExprNumber(10)),
      FunctionDeclaration("test", <<>>,
        <<Let("local", ExprNumber(20)),
          Let("result", BinaryOp("+", Identifier("local"),
                                      Identifier("global"))),
          ReturnSome(Identifier("result"))>>)>>

\* function test(global) { return global; }
ShadowedGlobal ==
    <<FunctionDeclaration("test", <<"global">>,
        <<ReturnSome(Identifier("global"))>>)>>

\* function test() { return missing; }
UnboundName ==
    <<FunctionDeclaration("test", <<>>, <<ReturnSome(Identifier("missing"))>>)>>

ScopingRuns ==
    {Run(VariableScoping, "test", <<>>), Run(UnboundName, "test", <<>>),
     Run(ShadowedGlobal, "test", <<>>)}
    \cup {Run(ShadowedGlobal, "test", <<x>>) : x \in ArgValues}

\* function main(x, y) { return x op y; } for the operators of Binary
OperandValues ==
    ArgValues \cup {ValueNumber(-1), ValueNumber(3), ValueNumber(5),
                    ValueNumber(42), ValueString("x="), ValueString("a"),
                    ValueString("ab"), ValueString("b")}

BinaryOperands(op) ==
    <<FunctionDeclaration("main", <<"x", "y">>,
        <<ReturnSome(BinaryOp(op, Identifier("x"), Identifier("y")))>>)>>

\* function main() { return "x=" + 42; }
AddLiteral ==
    <<FunctionDeclaration("main", <<>>,
        <<ReturnSome(BinaryOp("+", ExprString("x="), ExprNumber(42)))>>)>>

AddRuns ==
    {Run(BinaryOperands("+"), "main", <<x, y>>) :
        x \in OperandValues, y \in OperandValues}
    \cup {Run(AddLiteral, "main", <<>>)}

ComparisonOps == {"<", ">", "<=", ">="}

ComparisonRuns ==
    {Run(BinaryOperands(op), "main", <<x, y>>) :
        op \in ComparisonOps, x \in OperandValues, y \in OperandValues}

\* the operators parse_binary can put in a BinaryOp node
ParserOperators ==
    {"||", "&&", "==", "!=", "<", ">", "<=", ">=", "+", "-", "*", "/", "%"}

OperatorRuns ==
    {Run(BinaryOperands(op), "main", <<ValueNumber(2), ValueNumber(1)>>) :
        op \in ParserOperators}

\* IR modules handed to VM::new as they are, not lowered from an AST: a
\* function main whose first operand-consuming instruction finds the value
\* stack short of operands, and a function id(x) { return x; } to call
AssembledFunction(name, params, instructions) ==
    [IRFunction(name) EXCEPT !.params = params,
                             !.instructions = instructions]

UnderflowInstructions ==
    [Pop |-> <<Pop, PushConst(ConstNumber(1)), Return(TRUE)>>,
     Dup |-> <<Dup, Return(TRUE)>>,
     Store |-> <<Store("x"), Load("x"), Return(TRUE)>>,
     Binary |-> <<PushConst(ConstNumber(1)), Binary("Add"), Return(TRUE)>>,
     Unary |-> <<Unary("Not"), Return(TRUE)>>,
     JumpIf |-> <<JumpIf("L1"), PushConst(ConstNumber(1)), Return(TRUE),
                  Label("L1"), PushConst(ConstNumber(2)), Return(TRUE)>>,
     Return |-> <<Return(TRUE)>>,
     Call |-> <<Call("id", 1), Return(TRUE)>>,
     CallNative |-> <<Call("print", 1), Return(TRUE)>>]

UnderflowModule(case) ==
    [functions |->
        <<AssembledFunction("main", <<>>, UnderflowInstructions[case]),
          AssembledFunction("id", <<"x">>, <<Load("x"), Return(TRUE)>>)>>,
     constants |-> <<>>,
     panicked |-> FALSE]

AssembledRuns ==
    {[module |-> UnderflowModule(case), name |-> "main", args |-> <<>>] :
        case \in DOMAIN UnderflowInstructions}

\* function g() { let x = b; return 0; }
\* function main() { let x = a; g(); return x; }
CalleeLet(a, b) ==
    <<FunctionDeclaration("g", <<>>,
        <<Let("x", ExprNumber(b)), ReturnSome(ExprNumber(0))>>),
      FunctionDeclaration("main", <<>>,
        <<Let("x", ExprNumber(a)),
          ExpressionStatement(FunctionCall("g", <<>>)),
          ReturnSome(Identifier("x"))>>)>>

\* function f(n) { let x = n; if (n > 0) { f(n - 1); } return x; }
RecursiveLet ==
    <<FunctionDeclaration("f", <<"n">>,
        <<Let("x", Identifier("n")),
          If(BinaryOp(">", Identifier("n"), ExprNumber(0)),
             <<ExpressionStatement(
                 FunctionCall("f", <<BinaryOp("-", Identifier("n"),
                                              ExprNumber(1))>>))>>),
          ReturnSome(Identifier("x"))>>)>>

LetRuns ==
    {Run(CalleeLet(a, b), "main", <<>>) : a \in 1..2, b \in 1..2}
    \cup {Run(RecursiveLet, "f", <<ValueNumber(n)>>) : n \in 0..2}

Runs ==
    ShortCircuitRuns \cup WhileRuns \cup IfRuns \cup TernaryRuns
    \cup FibRuns \cup CallRuns \cup StoreRuns \cup NestedRuns
    \cup ReturnTailRuns \cup ScopingRuns \cup AddRuns
    \cup ComparisonRuns \cup LetRuns \cup OperatorRuns

(***************************************************************************)
(* The specification.                                                      *)
(***************************************************************************)
Init ==
    /\ \/ \E run \in Runs :
             /\ ast = run.statements
             /\ entry = [name |-> run.name, args |-> run.args]
             /\ module = [functions |-> <<>>, constants |-> <<>>,
                          panicked |-> FALSE]
             /\ status = "parsed"
       \/ \E run \in AssembledRuns :
             /\ ast = <<>>
             /\ entry = [name |-> run.name, args |-> run.args]
             /\ module = run.module
             /\ status = "assembled"
    /\ functions = [name \in {} |-> [kind |-> "Native",
                                    function |-> IRFunction("print")]]
    /\ stack = <<>>
    /\ globals = EmptyMap
    /\ frames = <<>>
    /\ debug_trace = [some |-> FALSE, frames |-> <<>>]
    /\ output = <<>>
    /\ return_value = ValueUndefined
    /\ lexer = Idle
    /\ parser = Idle
    /\ wasm = Idle
    /\ x64 = Idle
    /\ arm64 = Idle

Next ==
    \/ LowerAst
    \/ VM_new
    \/ enable_debugging
    \/ insert_global
    \/ execute_function
    \/ ExecPop
    \/ ExecDup
    \/ ExecPushConst
    \/ ExecLoad
    \/ ExecStore
    \/ ExecBinary
    \/ ExecUnary
    \/ ExecLabel
    \/ ExecJump
    \/ ExecJumpIf
    \/ ExecCall
    \/ ExecCallNative
    \/ ExecCallPanic
    \/ ExecReturn

Spec == Init /\ [][Next]_vars

(***************************************************************************)
(* lexer::tokenize.  The source is a sequence of characters, each a        *)
(* string of length one; lexer holds the locals of tokenize: the           *)
(* characters the iterator has not yielded yet, the tokens pushed, line    *)
(* and column, and the nesting of the block comment being skipped (0       *)
(* outside one).  source keeps the text tokenize was called on.            *)
(***************************************************************************)
Token(token_type, text, n, line, column) ==
    [token_type |-> token_type, text |-> text, n |-> n, line |-> line,
     column |-> column]

DigitChars == <<"0", "1", "2", "3", "4", "5", "6", "7", "8", "9">>
Digits == {DigitChars[i] : i \in 1..10}
Letters ==
    {"a", "b", "c", "d", "e", "f", "g", "h", "i", "j", "k", "l", "m", "n",
     "o", "p", "q", "r", "s", "t", "u", "v", "w", "x", "y", "z", "A", "B",
     "C", "D", "E", "F", "G", "H", "I", "J", "K", "L", "M", "N", "O", "P",
     "Q", "R", "S", "T", "U", "V", "W", "X", "Y", "Z", "_"}

\* the String a sequence of characters makes
RECURSIVE Concat(_)
Concat(chars) ==
    IF chars = <<>> THEN "" ELSE chars[1] \o Concat(Tail(chars))

Drop(chars, n) == SubSeq(chars, n + 1, Len(chars))

\* how many characters a `while let Some(&c) = chars.peek()` loop takes
\* while c is in allowed
RECURSIVE run_length(_, _)
run_length(chars, allowed) ==
    IF chars = <<>> \/ chars[1] \notin allowed THEN 0
    ELSE 1 + run_length(Tail(chars), allowed)

\* how many characters the loop of a single-line comment takes: all up to
\* the next '\n'
RECURSIVE until_newline(_)
until_newline(chars) ==
    IF chars = <<>> \/ chars[1] = "\n" THEN 0
    ELSE 1 + until_newline(Tail(chars))

\* str::parse::<f64> on digits and dots that start with a digit: an error
\* when there is more than one dot; the value is kept as the integer the
\* digits before the dot make and the digits after it
RECURSIVE digits_value(_)
digits_value(chars) ==
    IF chars = <<>> THEN 0
    ELSE 10 * digits_value(SubSeq(chars, 1, Len(chars) - 1))
         + (CHOOSE d \in 0..9 : DigitChars[d + 1] = chars[Len(chars)])

parse_f64(number) ==
    LET whole == run_length(number, Digits)
        dots == Cardinality({i \in 1..Len(number) : number[i] = "."})
    IN  [ok |-> dots <= 1,
         n |-> digits_value(SubSeq(number, 1, whole)),
         fraction |-> Concat(Drop(number, whole + 1))]

\* the keyword match of the identifier arm
keyword_or_identifier(ident) ==
    CASE ident = "function" -> "Function"
      [] ident = "let" -> "Let"
      [] ident = "return" -> "Return"
      [] ident = "if" -> "If"
      [] ident = "else" -> "Else"
      [] ident = "while" -> "While"
      [] ident = "true" -> "True"
      [] ident = "false" -> "False"
      [] ident = "null" -> "Null"
      [] OTHER -> "Identifier"

\* the escape match of the string arm
Escapes == {"n", "t", "r", "\\", "\"", "'"}
escape(escaped) ==
    CASE escaped = "n" -> "\n"
      [] escaped = "t" -> "\t"
      [] escaped = "r" -> "\r"
      [] OTHER -> escaped

\* the loop of the string arm on the characters after the opening quote:
\* the string built, the number of characters taken, and whether an
\* invalid escape made it panic.  The loop ends at the closing quote or
\* when the characters run out.
RECURSIVE scan_string(_, _)
scan_string(chars, quote) ==
    IF chars = <<>> THEN [string |-> "", taken |-> 0, panicked |-> FALSE]
    ELSE IF chars[1] = quote
    THEN [string |-> "", taken |-> 1, panicked |-> FALSE]
    ELSE IF chars[1] = "\\"
    THEN IF Len(chars) = 1
         THEN [string |-> "", taken |-> 1, panicked |-> FALSE]
         ELSE IF chars[2] \notin Escapes
         THEN [string |-> "", taken |-> 2, panicked |-> TRUE]
         ELSE LET rest == scan_string(Drop(chars, 2), quote)
              IN  [string |-> escape(chars[2]) \o rest.string,
                   taken |-> 2 + rest.taken,
                   panicked |-> rest.panicked]
    ELSE LET rest == scan_string(Tail(chars), quote)
         IN  [string |-> chars[1] \o rest.string,
              taken |-> 1 + rest.taken,
              panicked |-> rest.panicked]

lexer_push(lx, token) == [lx EXCEPT !.tokens = Append(@, token)]
lexer_next(lx, n) ==
    [lx EXCEPT !.chars = Drop(@, n), !.column = @ + n]
lexer_panic(lx) == [lx EXCEPT !.status = "panicked"]

\* ' ' | '\t' | '\r' and '\n'
lex_whitespace(lx) ==
    IF lx.chars[1] = "\n"
    THEN [lx EXCEPT !.chars = Tail(@), !.line = @ + 1, !.column = 1]
    ELSE lexer_next(lx, 1)

\* '0'..='9'
lex_number(lx) ==
    LET taken == run_length(lx.chars, Digits \union {"."})
        number == parse_f64(SubSeq(lx.chars, 1, taken))
    IN  IF ~number.ok THEN lexer_panic(lexer_next(lx, taken))
        ELSE lexer_push(lexer_next(lx, taken),
                        Token("Number", number.fraction, number.n, lx.line,
                              lx.column))

\* 'a'..='z' | 'A'..='Z' | '_'
lex_identifier(lx) ==
    LET taken == run_length(lx.chars, Letters \union Digits)
        ident == Concat(SubSeq(lx.chars, 1, taken))
        token_type == keyword_or_identifier(ident)
    IN  lexer_push(lexer_next(lx, taken),
                   Token(token_type,
                         IF token_type = "Identifier" THEN ident ELSE "",
                         0, lx.line, lx.column))

\* '"' | '\'': the token is pushed whenever the loop ends, by the closing
\* quote or by the end of the characters
lex_string(lx) ==
    LET scanned == scan_string(Tail(lx.chars), lx.chars[1])
        after == lexer_next(lx, 1 + scanned.taken)
    IN  IF scanned.panicked THEN lexer_panic(after)
        ELSE lexer_push(after,
                        Token("StringLiteral", scanned.string, 0, lx.line,
                              lx.column + 1))

\* '/': a single-line comment, the opening of a multi-line comment, or the
\* Divide operator
lex_slash(lx) ==
    IF Len(lx.chars) >= 2 /\ lx.chars[2] = "/"
    THEN lexer_next(lx, 1 + until_newline(Tail(lx.chars)))
    ELSE IF Len(lx.chars) >= 2 /\ lx.chars[2] = "*"
    THEN [lexer_next(lx, 2) EXCEPT !.nesting = 1]
    ELSE lexer_push(lexer_next(lx, 1),
                    Token("Divide", "", 0, lx.line, lx.column))

\* one iteration of `while nesting > 0`, which ignores nested openings
lex_comment_flat(lx) ==
    IF lx.chars = <<>> THEN lexer_panic(lx)
    ELSE IF lx.chars[1] = "*"
    THEN IF Len(lx.chars) >= 2 /\ lx.chars[2] = "/"
         THEN [lx EXCEPT !.chars = Drop(@, 2), !.column = @ + 1,
                         !.nesting = @ - 1]
         ELSE lexer_next(lx, 1)
    ELSE IF lx.chars[1] = "\n"
    THEN [lx EXCEPT !.chars = Tail(@), !.line = @ + 1, !.column = 1]
    ELSE lexer_next(lx, 1)

\* one iteration of `while nesting > 0`
lex_comment(lx) ==
    IF lx.chars = <<>> THEN lexer_panic(lx)
    ELSE IF lx.chars[1] = "*"
    THEN IF Len(lx.chars) >= 2 /\ lx.chars[2] = "/"
         THEN [lx EXCEPT !.chars = Drop(@, 2), !.column = @ + 1,
                         !.nesting = @ - 1]
         ELSE lexer_next(lx, 1)
    ELSE IF lx.chars[1] = "/"
    THEN IF Len(lx.chars) >= 2 /\ lx.chars[2] = "*"
         THEN [lx EXCEPT !.chars = Drop(@, 2), !.column = @ + 1,
                         !.nesting = @ + 1]
         ELSE lexer_next(lx, 1)
    ELSE IF lx.chars[1] = "\n"
    THEN [lx EXCEPT !.chars = Tail(@), !.line = @ + 1, !.column = 1]
    ELSE lexer_next(lx, 1)

\* the operators and punctuation of one character
Punctuation == {"+", "-", "*", "%", "(", ")", "{", "}", ";", ",", "?", ":"}
punctuation_type(c) ==
    CASE c = "+" -> "Plus"
      [] c = "-" -> "Minus"
      [] c = "*" -> "Multiply"
      [] c = "%" -> "Modulo"
      [] c = "(" -> "LParen"
      [] c = ")" -> "RParen"
      [] c = "{" -> "LBrace"
      [] c = "}" -> "RBrace"
      [] c = ";" -> "Semicolon"
      [] c = "," -> "Comma"
      [] c = "?" -> "QuestionMark"
      [] c = ":" -> "Colon"

lex_punctuation(lx) ==
    lexer_push(lexer_next(lx, 1),
               Token(punctuation_type(lx.chars[1]), "", 0, lx.line,
                     lx.column))

\* '=' | '!' | '<' | '>' with an optional '=', and '&' | '|' which must be
\* doubled
TwoCharacter == {"=", "!", "<", ">", "&", "|"}
single_type(c) ==
    CASE c = "=" -> "Equal"
      [] c = "!" -> "Not"
      [] c = "<" -> "LessThan"
      [] c = ">" -> "GreaterThan"
double_type(c) ==
    CASE c = "=" -> "EqualEqual"
      [] c = "!" -> "NotEqual"
      [] c = "<" -> "LessEqual"
      [] c = ">" -> "GreaterEqual"
      [] c = "&" -> "And"
      [] c = "|" -> "Or"

lex_two_character(lx) ==
    LET c == lx.chars[1]
        second == IF c \in {"&", "|"} THEN c ELSE "="
    IN  IF Len(lx.chars) >= 2 /\ lx.chars[2] = second
        THEN lexer_push(lexer_next(lx, 2),
                        Token(double_type(c), "", 0, lx.line, lx.column))
        ELSE IF c \in {"&", "|"} THEN lexer_panic(lexer_next(lx, 1))
        ELSE lexer_push(lexer_next(lx, 1),
                        Token(single_type(c), "", 0, lx.line, lx.column))

Whitespace == {" ", "\t", "\r", "\n"}
Quotes == {"\"", "'"}
Expected ==
    Whitespace \union Digits \union Letters \union Quotes \union {"/"}
    \union Punctuation \union TwoCharacter

\* the locals of tokenize when it is called on source
tokenize(source) ==
    [source |-> source, chars |-> source, tokens |-> <<>>, line |-> 1,
     column |-> 1, nesting |-> 0, status |-> "scanning"]

Scanning(class) ==
    /\ lexer.status = "scanning"
    /\ lexer.nesting = 0
    /\ lexer.chars # <<>>
    /\ lexer.chars[1] \in class

LexWhitespace ==
    /\ Scanning(Whitespace)
    /\ lexer' = lex_whitespace(lexer)
    /\ UNCHANGED <<backend, parser, wasm, x64, arm64>>

LexNumber ==
    /\ Scanning(Digits)
    /\ lexer' = lex_number(lexer)
    /\ UNCHANGED <<backend, parser, wasm, x64, arm64>>

LexIdentifier ==
    /\ Scanning(Letters)
    /\ lexer' = lex_identifier(lexer)
    /\ UNCHANGED <<backend, parser, wasm, x64, arm64>>

LexString ==
    /\ Scanning(Quotes)
    /\ lexer' = lex_string(lexer)
    /\ UNCHANGED <<backend, parser, wasm, x64, arm64>>

LexSlash ==
    /\ Scanning({"/"})
    /\ lexer' = lex_slash(lexer)
    /\ UNCHANGED <<backend, parser, wasm, x64, arm64>>

LexComment ==
    /\ lexer.status = "scanning"
    /\ lexer.nesting > 0
    /\ lexer' = lex_comment(lexer)
    /\ UNCHANGED <<backend, parser, wasm, x64, arm64>>

LexPunctuation ==
    /\ Scanning(Punctuation)
    /\ lexer' = lex_punctuation(lexer)
    /\ UNCHANGED <<backend, parser, wasm, x64, arm64>>

LexTwoCharacter ==
    /\ Scanning(TwoCharacter)
    /\ lexer' = lex_two_character(lexer)
    /\ UNCHANGED <<backend, parser, wasm, x64, arm64>>

\* `_ => panic!("Unexpected character")`
LexUnexpected ==
    /\ lexer.status = "scanning"
    /\ lexer.nesting = 0
    /\ lexer.chars # <<>>
    /\ lexer.chars[1] \notin Expected
    /\ lexer' = lexer_panic(lexer)
    /\ UNCHANGED <<backend, parser, wasm, x64, arm64>>

\* the outer loop ends when peek yields None, and tokens is returned
LexReturn ==
    /\ lexer.status = "scanning"
    /\ lexer.nesting = 0
    /\ lexer.chars = <<>>
    /\ lexer' = [lexer EXCEPT !.status = "done"]
    /\ UNCHANGED <<backend, parser, wasm, x64, arm64>>

\* The sources tokenize is called on: every text of up to MaxComment
\* characters that comments are made of, every text of up to MaxString
\* characters that string literals are made of, and texts with the other
\* characters.
MaxComment == 8
MaxString == 5
CommentAlphabet == {"/", "*", "a"}
StringAlphabet == {"\"", "'", "\\", "n", "a"}
Texts(alphabet, n) == UNION {[1..k -> alphabet] : k \in 0..n}
SampleSources ==
    {<<"l", "e", "t", " ", "x", "1", " ", "=", " ", "1", ".", "5", ";">>,
     <<"1", ".", "2", ".", "3">>,
     <<"a", " ", "&", " ", "b">>,
     <<"a", "&", "&", "b", "|", "|", "!", "c">>,
     <<"a", "#">>,
     <<"i", "f", "(", "a", "<", "=", "2", ")", "{", "}", "\t", "/", "/",
       "c", "\n", "b", "/", "2">>,
     <<"a", " ", "/", "*", "b", "\n", "/", "*", "c", "*", "/", "d", "*",
       "/", " ", "e">>,
     <<"\"", "a", "\\", "n", "\"">>}
Sources ==
    Texts(CommentAlphabet, MaxComment) \union Texts(StringAlphabet, MaxString)
    \union SampleSources

\* the variables of the stages that are not running
BackendIdle ==
    /\ ast = <<>>
    /\ module = [functions |-> <<>>, constants |-> <<>>, panicked |-> FALSE]
    /\ functions = <<>>
    /\ stack = <<>>
    /\ globals = <<>>
    /\ frames = <<>>
    /\ debug_trace = <<>>
    /\ output = <<>>
    /\ entry = <<>>
    /\ return_value = <<>>
    /\ status = "idle"

LexerInit ==
    /\ BackendIdle
    /\ parser = Idle
    /\ wasm = Idle
    /\ x64 = Idle
    /\ arm64 = Idle
    /\ \E source \in Sources : lexer = tokenize(source)

LexerNext ==
    \/ LexWhitespace
    \/ LexNumber
    \/ LexIdentifier
    \/ LexString
    \/ LexSlash
    \/ LexComment
    \/ LexPunctuation
    \/ LexTwoCharacter
    \/ LexUnexpected
    \/ LexReturn

SpecLexer == LexerInit /\ [][LexerNext]_vars

(***************************************************************************)
(* parser::parse.  A Parser is its tokens and current (an index from 0);   *)
(* panicked records that a panic! or an unwrap of None ended the parse.    *)
(* Every parse function takes the Parser and gives the Parser it leaves    *)
(* with the value it returns.                                              *)
(***************************************************************************)
Parser_new(tokens) == [tokens |-> tokens, current |-> 0, panicked |-> FALSE]

NoToken == Token("None", "", 0, 0, 0)
peek(p) ==
    IF p.current < Len(p.tokens) THEN p.tokens[p.current + 1] ELSE NoToken

advance(p) ==
    IF p.current < Len(p.tokens) THEN [p EXCEPT !.current = @ + 1] ELSE p

Parsed(p, value) == [p |-> p, value |-> value]
ParsePanic(p) == [p |-> [p EXCEPT !.panicked = TRUE], value |-> <<>>]

\* the Parser after expect_token(expected)
expect_token(p, expected) ==
    IF peek(p).token_type = expected THEN advance(p)
    ELSE [advance(p) EXCEPT !.panicked = TRUE]

\* the binary levels, from parse_logical_or to parse_factor, and the
\* operator a token is at a level ("" where the loop of the level breaks)
LogicalOr == 1
LogicalAnd == 2
Equality == 3
Comparison == 4
Term == 5
Factor == 6
binary_operator(level, token_type) ==
    CASE level = LogicalOr /\ token_type = "Or" -> "||"
      [] level = LogicalAnd /\ token_type = "And" -> "&&"
      [] level = Equality /\ token_type = "EqualEqual" -> "=="
      [] level = Equality /\ token_type = "NotEqual" -> "!="
      [] level = Comparison /\ token_type = "LessThan" -> "<"
      [] level = Comparison /\ token_type = "GreaterThan" -> ">"
      [] level = Comparison /\ token_type = "LessEqual" -> "<="
      [] level = Comparison /\ token_type = "GreaterEqual" -> ">="
      [] level = Term /\ token_type = "Plus" -> "+"
      [] level = Term /\ token_type = "Minus" -> "-"
      [] level = Factor /\ token_type = "Multiply" -> "*"
      [] level = Factor /\ token_type = "Divide" -> "/"
      [] level = Factor /\ token_type = "Modulo" -> "%"
      [] OTHER -> ""

RECURSIVE parse_expression(_)
RECURSIVE parse_conditional(_)
RECURSIVE parse_binary(_, _)
RECURSIVE binary_loop(_, _, _)
RECURSIVE parse_unary(_)
RECURSIVE parse_primary(_)
RECURSIVE parse_function_call(_, _)
RECURSIVE call_arguments(_, _, _)
RECURSIVE parse_statement(_)
RECURSIVE parse_block(_)
RECURSIVE block_statements(_, _)
RECURSIVE function_body(_, _)

\* The(S) is the element of a set S of one element.  Written
\* The({body : name \in {value}}), it gives value a name in body.
The(S) == CHOOSE value \in S : TRUE

\* expect_token(expected) after the parse that gave parsed
Expecting(parsed, expected) ==
    IF parsed.p.panicked THEN parsed
    ELSE [parsed EXCEPT !.p = expect_token(@, expected)]

\* the operand of a level: the next level, parse_unary below parse_factor
parse_operand(p, level) ==
    IF level = Factor THEN parse_unary(p) ELSE parse_binary(p, level + 1)

\* the loop of a level, which parses its right operand at the same level
binary_loop_right(p, level, expr) ==
    LET op == binary_operator(level, peek(p).token_type)
    IN  IF op = "" THEN Parsed(p, expr)
        ELSE The({IF right.p.panicked THEN right
                  ELSE Parsed(right.p, BinaryOp(op, expr, right.value)) :
                     right \in {parse_binary(advance(p), level)}})

\* the `while let Some(token) = self.peek()` loop of a level, with expr the
\* expression built so far
binary_loop(p, level, expr) ==
    LET op == binary_operator(level, peek(p).token_type)
    IN  IF op = "" THEN Parsed(p, expr)
        ELSE The({IF right.p.panicked THEN right
                  ELSE binary_loop(right.p, level,
                                   BinaryOp(op, expr, right.value)) :
                     right \in {parse_operand(advance(p), level)}})

\* parse_logical_or, parse_logical_and, parse_equality, parse_comparison,
\* parse_term and parse_factor
parse_binary(p, level) ==
    The({IF left.p.panicked THEN left
         ELSE binary_loop(left.p, level, left.value) :
            left \in {parse_operand(p, level)}})

parse_logical_or(p) == parse_binary(p, LogicalOr)

parse_conditional(p) ==
    The({IF condition.p.panicked
            \/ peek(condition.p).token_type # "QuestionMark"
         THEN condition
         ELSE The({IF then_expr.p.panicked THEN then_expr
                   ELSE The({IF else_expr.p.panicked THEN else_expr
                             ELSE Parsed(else_expr.p,
                                         Conditional(condition.value,
                                                     then_expr.value,
                                                     else_expr.value)) :
                                else_expr \in
                                    {parse_conditional(then_expr.p)}}) :
                      then_expr \in
                          {Expecting(parse_expression(advance(condition.p)),
                                    "Colon")}}) :
            condition \in {parse_logical_or(p)}})

parse_expression(p) == parse_conditional(p)

parse_unary(p) ==
    LET token_type == peek(p).token_type
    IN  IF token_type \notin {"Not", "Minus"} THEN parse_primary(p)
        ELSE The({IF expr.p.panicked THEN expr
                  ELSE Parsed(expr.p,
                              UnaryOp(IF token_type = "Not" THEN "!"
                                      ELSE "-",
                                      expr.value)) :
                     expr \in {parse_unary(advance(p))}})

parse_primary(p) ==
    LET token == peek(p)
        after == advance(p)
    IN  CASE token.token_type = "Number" ->
               Parsed(after, Node("Number", token.text, token.n, FALSE,
                                  <<>>, <<>>, <<>>, <<>>))
          [] token.token_type = "StringLiteral" ->
               Parsed(after, ExprString(token.text))
          [] token.token_type = "True" -> Parsed(after, ExprBoolean(TRUE))
          [] token.token_type = "False" -> Parsed(after, ExprBoolean(FALSE))
          [] token.token_type = "Null" -> Parsed(after, ExprNull)
          [] token.token_type = "Identifier" ->
               IF peek(after).token_type = "LParen"
               THEN parse_function_call(after, token.text)
               ELSE Parsed(after, Identifier(token.text))
          [] token.token_type = "LParen" ->
               Expecting(parse_expression(after), "RParen")
          [] OTHER -> ParsePanic(after)

\* the loop of parse_function_call, with the arguments pushed so far
call_arguments(p, name, arguments) ==
    IF peek(p) = NoToken THEN ParsePanic(p)
    ELSE IF peek(p).token_type = "RParen"
    THEN Parsed(advance(p), FunctionCall(name, arguments))
    ELSE The({IF argument.p.panicked THEN argument
              ELSE IF peek(argument.p).token_type = "Comma"
              THEN call_arguments(advance(argument.p), name,
                                  Append(arguments, argument.value))
              ELSE IF peek(argument.p).token_type = "RParen"
              THEN call_arguments(argument.p, name,
                                  Append(arguments, argument.value))
              ELSE ParsePanic(argument.p) :
                 argument \in {parse_expression(p)}})

parse_function_call(p, name) == call_arguments(advance(p), name, <<>>)

\* the loop of parse_block, with the statements pushed so far
block_statements(p, statements) ==
    IF peek(p) = NoToken \/ peek(p).token_type = "RBrace"
    THEN Parsed(p, statements)
    ELSE The({IF statement.p.panicked THEN statement
              ELSE block_statements(statement.p,
                                    Append(statements, statement.value)) :
                 statement \in {parse_statement(p)}})

parse_block(p) ==
    LET opened == expect_token(p, "LBrace")
    IN  IF opened.panicked THEN ParsePanic(opened)
        ELSE Expecting(block_statements(opened, <<>>), "RBrace")

\* the parameter loop of parse_function, with the params pushed so far: it
\* ends at a ')' or at the end of the tokens, and takes a ',' after a
\* parameter when there is one
RECURSIVE function_params(_, _)
function_params(p, params) ==
    LET token == peek(p)
        after == advance(p)
    IN  IF token = NoToken THEN Parsed(p, params)
        ELSE IF token.token_type = "RParen" THEN Parsed(after, params)
        ELSE IF token.token_type = "Identifier"
        THEN function_params(IF peek(after).token_type = "Comma"
                             THEN advance(after) ELSE after,
                             Append(params, token.text))
        ELSE ParsePanic(p)

\* the body loop of parse_function, with the statements pushed so far: it
\* ends at a '}' or at the end of the tokens
function_body(p, body) ==
    IF peek(p) = NoToken THEN Parsed(p, body)
    ELSE IF peek(p).token_type = "RBrace" THEN Parsed(advance(p), body)
    ELSE The({IF statement.p.panicked THEN statement
              ELSE function_body(statement.p, Append(body, statement.value)) :
                 statement \in {parse_statement(p)}})

\* the two advance() calls that take the token after the name and the token
\* before the body are not checked
parse_function(p) ==
    LET name == peek(advance(p))
    IN  IF name.token_type # "Identifier" THEN ParsePanic(advance(advance(p)))
        ELSE The({IF params.p.panicked THEN params
                  ELSE The({IF body.p.panicked THEN body
                            ELSE Parsed(body.p,
                                        FunctionDeclaration(name.text,
                                                            params.value,
                                                            body.value)) :
                               body \in {function_body(advance(params.p),
                                                       <<>>)}}) :
                     params \in
                         {function_params(advance(advance(advance(p))),
                                          <<>>)}})

parse_let_statement(p) ==
    LET name == peek(advance(p))
        equal == expect_token(advance(advance(p)), "Equal")
    IN  IF name.token_type # "Identifier" THEN ParsePanic(advance(advance(p)))
        ELSE IF equal.panicked THEN ParsePanic(equal)
        ELSE The({IF initializer.p.panicked THEN initializer
                  ELSE Parsed(initializer.p,
                              Let(name.text, initializer.value)) :
                     initializer \in
                         {Expecting(parse_expression(equal), "Semicolon")}})

parse_return_statement(p) ==
    LET after == advance(p)
    IN  IF peek(after) = NoToken \/ peek(after).token_type = "Semicolon"
        THEN Expecting(Parsed(after, ReturnNone), "Semicolon")
        ELSE The({IF expr.p.panicked THEN expr
                  ELSE Parsed(expr.p, ReturnSome(expr.value)) :
                     expr \in
                         {Expecting(parse_expression(after), "Semicolon")}})

parse_expression_statement(p) ==
    The({IF expr.p.panicked THEN expr
         ELSE Parsed(expr.p, ExpressionStatement(expr.value)) :
            expr \in {Expecting(parse_expression(p), "Semicolon")}})

parse_if_statement(p) ==
    LET opened == expect_token(advance(p), "LParen")
    IN  IF opened.panicked THEN ParsePanic(opened)
        ELSE The({IF condition.p.panicked THEN condition
                  ELSE The({IF then_branch.p.panicked THEN then_branch
                            ELSE IF peek(then_branch.p).token_type # "Else"
                            THEN Parsed(then_branch.p,
                                        If(condition.value,
                                           then_branch.value))
                            ELSE The({IF else_branch.p.panicked
                                      THEN else_branch
                                      ELSE Parsed(else_branch.p,
                                                  IfElse(condition.value,
                                                         then_branch.value,
                                                         else_branch.value)) :
                                         else_branch \in
                                             {parse_block(
                                                 advance(then_branch.p))}}) :
                               then_branch \in {parse_block(condition.p)}}) :
                     condition \in
                         {Expecting(parse_expression(opened), "RParen")}})

parse_while_statement(p) ==
    LET opened == expect_token(advance(p), "LParen")
    IN  IF opened.panicked THEN ParsePanic(opened)
        ELSE The({IF condition.p.panicked THEN condition
                  ELSE The({IF body.p.panicked THEN body
                            ELSE Parsed(body.p,
                                        While(condition.value, body.value)) :
                               body \in {parse_block(condition.p)}}) :
                     condition \in
                         {Expecting(parse_expression(opened), "RParen")}})

parse_statement(p) ==
    LET token_type == peek(p).token_type
    IN  CASE token_type = "Function" -> parse_function(p)
          [] token_type = "Let" -> parse_let_statement(p)
          [] token_type = "Return" -> parse_return_statement(p)
          [] token_type = "If" -> parse_if_statement(p)
          [] token_type = "While" -> parse_while_statement(p)
          [] OTHER -> parse_expression_statement(p)

\* the locals of parse when it is called on tokens
parse(tokens) ==
    [parser |-> Parser_new(tokens), statements |-> <<>>,
     status |-> "parsing"]

\* one iteration of `while parser.peek().is_some()`
ParseStatement ==
    /\ parser.status = "parsing"
    /\ peek(parser.parser) # NoToken
    /\ \E statement \in {parse_statement(parser.parser)} :
          parser' =
              IF statement.p.panicked
              THEN [parser EXCEPT !.parser = statement.p,
                                  !.status = "panicked"]
              ELSE [parser EXCEPT !.parser = statement.p,
                                  !.statements = Append(@, statement.value)]
    /\ UNCHANGED <<backend, lexer, wasm, x64, arm64>>

\* the loop ends and the AST is returned
ParseReturn ==
    /\ parser.status = "parsing"
    /\ peek(parser.parser) = NoToken
    /\ parser' = [parser EXCEPT !.status = "done"]
    /\ UNCHANGED <<backend, lexer, wasm, x64, arm64>>

\* The tokens parse is called on.  An expression statement of up to
\* MaxOperators operators, each operand an identifier named after its
\* position; a function declaration of up to MaxParams parameters, and the
\* same with one token left out or replaced by another; and statements of
\* the other kinds.
MaxOperators == 4
MaxParams == 2
T(token_type) == Token(token_type, "", 0, 1, 1)
Ident(name) == Token("Identifier", name, 0, 1, 1)
Num(n) == Token("Number", "", n, 1, 1)

OperandNames == <<"a", "b", "c", "d", "e", "f", "g">>
ExpressionOperators ==
    {"Or", "And", "EqualEqual", "LessThan", "Plus", "Minus", "Multiply",
     "QuestionMark", "Colon"}
ExpressionTokens(ops) ==
    [i \in 1..(2 * Len(ops) + 2) |->
        IF i = 2 * Len(ops) + 2 THEN T("Semicolon")
        ELSE IF i % 2 = 1 THEN Ident(OperandNames[(i + 1) \div 2])
        ELSE T(ops[i \div 2])]
ExpressionStreams ==
    {ExpressionTokens(ops) : ops \in Texts(ExpressionOperators, MaxOperators)}

RECURSIVE Separated(_, _)
Separated(names, i) ==
    IF i > Len(names) THEN <<>>
    ELSE (IF i > 1 THEN <<T("Comma")>> ELSE <<>>) \o <<Ident(names[i])>>
         \o Separated(names, i + 1)
Declaration(params, body) ==
    <<T("Function"), Ident("f"), T("LParen")>> \o Separated(params, 1)
    \o <<T("RParen"), T("LBrace")>> \o body \o <<T("RBrace")>>
Declarations ==
    {Declaration(SubSeq(OperandNames, 1, n), body) :
        n \in 0..MaxParams,
        body \in {<<>>, <<Ident("a"), T("Semicolon")>>,
                  <<T("Return"), Ident("a"), T("Semicolon")>>}}
DeclarationTokens ==
    {T("LParen"), T("RParen"), T("LBrace"), T("RBrace"), T("Comma"),
     T("Semicolon"), Ident("a")}
LeftOut(tokens, i) ==
    SubSeq(tokens, 1, i - 1) \o SubSeq(tokens, i + 1, Len(tokens))
DeclarationStreams ==
    Declarations
    \union UNION {{LeftOut(tokens, i) : i \in 3..Len(tokens)} :
                     tokens \in Declarations}
    \union UNION {{[tokens EXCEPT ![i] = token] :
                      i \in 3..Len(tokens), token \in DeclarationTokens} :
                     tokens \in Declarations}

SampleStreams ==
    {<<Num(1), T("Plus"), Num(2), T("Multiply"), Num(3), T("Semicolon")>>,
     <<T("Let"), Ident("x"), T("Equal"), T("LParen"), Ident("a"),
       T("Plus"), Ident("b"), T("RParen"), T("Modulo"), T("Minus"),
       Num(2), T("Semicolon")>>,
     <<T("If"), T("LParen"), T("Not"), Ident("a"), T("RParen"),
       T("LBrace"), T("Return"), T("Semicolon"), T("RBrace"), T("Else"),
       T("LBrace"), Ident("f"), T("LParen"), Ident("a"), T("Comma"),
       T("True"), T("RParen"), T("Semicolon"), T("RBrace")>>,
     <<T("While"), T("LParen"), Ident("a"), T("GreaterEqual"), T("Null"),
       T("RParen"), T("LBrace"), Ident("f"), T("LParen"), T("RParen"),
       T("Semicolon"), T("RBrace"), T("Let"), Ident("x"), T("Equal"),
       Token("StringLiteral", "s", 0, 1, 1), T("Semicolon")>>,
     <<T("Let"), T("Equal")>>,
     <<Ident("f"), T("LParen"), Ident("a")>>}

TokenStreams == ExpressionStreams \union DeclarationStreams \union SampleStreams

ParserInit ==
    /\ BackendIdle
    /\ lexer = Idle
    /\ wasm = Idle
    /\ x64 = Idle
    /\ arm64 = Idle
    /\ \E tokens \in TokenStreams : parser = parse(tokens)

ParserNext ==
    \/ ParseStatement
    \/ ParseReturn

SpecParser == ParserInit /\ [][ParserNext]_vars

(***************************************************************************)
(* codegen::wasm::WasmGenerator.  The output String is kept as the         *)
(* sequence of its lexical items: "(" and ")", the words between blanks,   *)
(* and a `;;` comment up to the end of its line as one item.               *)
(***************************************************************************)
WasmGenerator_new ==
    [output |-> <<>>, locals |-> EmptyMap, local_count |-> 0,
     string_data |-> <<>>, float_data |-> <<>>]

push_str(generator, items) == [generator EXCEPT !.output = @ \o items]

reset_state(generator) ==
    [generator EXCEPT !.locals = EmptyMap, !.local_count = 0]

\* self.locals.get(name), or allocate_local(name) when there is none
local_idx(generator, name) ==
    IF name \in DOMAIN generator.locals THEN generator.locals[name]
    ELSE generator.local_count

wasm_allocate_local(generator, name) ==
    IF name \in DOMAIN generator.locals THEN generator
    ELSE [generator EXCEPT !.locals = MapInsert(@, name, generator.local_count),
                           !.local_count = @ + 1]

\* format!("{}", n) of a Number constant
number_text(constant) ==
    IF constant.s = "" THEN ToString(constant.n) ELSE constant.s

generate_const(generator, constant) ==
    CASE constant.t = "Number" ->
           push_str(generator, <<"f64.const", number_text(constant),
                                 "i64.reinterpret_f64">>)
      [] constant.t = "String" ->
           push_str([generator EXCEPT !.string_data = Append(@, constant.s)],
                    <<"i64.const", ToString(Len(generator.string_data))>>)
      [] constant.t = "Boolean" ->
           push_str(generator,
                    <<"i64.const", IF constant.b THEN "1" ELSE "0">>)
      [] constant.t = "Null" -> push_str(generator, <<"i64.const", "0">>)

generate_binary_op(generator, op) ==
    push_str(generator,
        CASE op = "Add" -> <<"i64.add">>
          [] op = "Sub" -> <<"i64.sub">>
          [] op = "Mul" -> <<"i64.mul">>
          [] op = "Div" -> <<"f64.reinterpret_i64", "f64.div",
                             "i64.reinterpret_f64">>
          [] op = "Eq" -> <<"i64.eq">>
          [] op = "Lt" -> <<"i64.lt_s">>
          [] op = "Gt" -> <<"i64.gt_s">>
          [] op = "Le" -> <<"i64.le_s">>
          [] op = "Ge" -> <<"i64.ge_s">>
          [] op = "And" -> <<"i64.and">>
          [] op = "Or" -> <<"i64.or">>)

generate_unary_op(generator, op) ==
    push_str(generator,
        CASE op = "Neg" -> <<"i64.const", "-1", "i64.mul">>
          [] op = "Not" -> <<"i64.eqz", "i64.extend_i32_u">>)

\* a Label opens a block that nothing closes
generate_instruction(generator, instruction) ==
    CASE instruction.op = "PushConst" ->
           generate_const(generator, instruction.c)
      [] instruction.op = "Load" ->
           push_str(wasm_allocate_local(generator, instruction.s),
                    <<"local.get",
                      ToString(local_idx(generator, instruction.s))>>)
      [] instruction.op = "Store" ->
           push_str(wasm_allocate_local(generator, instruction.s),
                    <<"local.set",
                      ToString(local_idx(generator, instruction.s))>>)
      [] instruction.op = "Binary" ->
           generate_binary_op(generator, instruction.s)
      [] instruction.op = "Unary" ->
           generate_unary_op(generator, instruction.s)
      [] instruction.op = "Call" ->
           push_str(generator,
                    <<"call", "$" \o instruction.s,
                      ";; args: " \o ToString(instruction.n)>>)
      [] instruction.op = "Return" ->
           push_str(generator,
                    IF instruction.flag THEN <<"return">>
                    ELSE <<"i64.const", "0", "return">>)
      [] instruction.op = "Jump" ->
           push_str(generator, <<"br", instruction.s>>)
      [] instruction.op = "JumpIf" ->
           push_str(generator, <<"br_if", instruction.s>>)
      [] instruction.op = "Label" ->
           push_str(generator, <<"(", "block", "$" \o instruction.s>>)
      [] instruction.op = "Pop" -> push_str(generator, <<"drop">>)
      [] instruction.op = "Dup" ->
           push_str(generator,
                    <<"local.tee", "$tmp", "local.get", "$tmp">>)

\* generate_function up to its loop over the instructions
generate_function(generator, function) ==
    LET cleared == reset_state(generator)
        header == <<"(", "func", "$" \o function.name>>
        params == [i \in 1..(4 * Len(function.params)) |->
                      <<"(", "param", "i64", ")">>[((i - 1) % 4) + 1]]
        local == IF function.max_locals > 0
                 THEN <<"(", "local", "$" \o ToString(cleared.local_count),
                        "i64", ")">>
                 ELSE <<>>
    IN  push_str(cleared,
                 header \o params \o <<"(", "result", "i64", ")">> \o local)

\* the data sections of the strings of an earlier call
RECURSIVE data_sections(_, _)
data_sections(string_data, i) ==
    IF i > Len(string_data) THEN <<>>
    ELSE <<"(", "data", "(", "i32.const", ToString((i - 1) * 8), ")",
           "\"" \o string_data[i] \o "\"", ")">>
         \o data_sections(string_data, i + 1)

\* generate up to its loop over the functions
generate(generator) ==
    push_str(generator,
             <<"(", "module", "(", "memory", "1", ")",
               "(", "import", "\"console\"", "\"log\"",
               "(", "func", "$log", "(", "param", "i64", ")", ")", ")">>
             \o data_sections(generator.string_data, 1))

has_main(ir_module) ==
    \E i \in 1..Len(ir_module.functions) :
        ir_module.functions[i].name = "main"

\* wasm holds the generator, the module generate was called on, and where
\* the loops over the functions and their instructions are
WasmCall(ir_module) ==
    [generator |-> WasmGenerator_new, module |-> ir_module, function |-> 0,
     instruction |-> 0, status |-> "called"]

WasmGenerate ==
    /\ wasm.status = "called"
    /\ wasm' = [wasm EXCEPT !.generator = generate(@),
                            !.function = 1,
                            !.status = "functions"]
    /\ UNCHANGED <<backend, lexer, parser, x64, arm64>>

WasmFunction ==
    /\ wasm.status = "functions"
    /\ wasm.function <= Len(wasm.module.functions)
    /\ wasm.instruction = 0
    /\ wasm' = [wasm EXCEPT
                  !.generator =
                      generate_function(@, wasm.module.functions[wasm.function]),
                  !.instruction = 1]
    /\ UNCHANGED <<backend, lexer, parser, x64, arm64>>

WasmInstruction ==
    /\ wasm.status = "functions"
    /\ wasm.function <= Len(wasm.module.functions)
    /\ wasm.instruction >= 1
    /\ LET function == wasm.module.functions[wasm.function]
       IN  /\ wasm.instruction <= Len(function.instructions)
           /\ wasm' = [wasm EXCEPT
                         !.generator =
                             generate_instruction(
                                 @, function.instructions[wasm.instruction]),
                         !.instruction = @ + 1]
    /\ UNCHANGED <<backend, lexer, parser, x64, arm64>>

WasmFunctionEnd ==
    /\ wasm.status = "functions"
    /\ wasm.function <= Len(wasm.module.functions)
    /\ wasm.instruction
        = Len(wasm.module.functions[wasm.function].instructions) + 1
    /\ wasm' = [wasm EXCEPT !.generator = push_str(@, <<")">>),
                            !.function = @ + 1,
                            !.instruction = 0]
    /\ UNCHANGED <<backend, lexer, parser, x64, arm64>>

\* the export of main, the closing of the module, and the output returned
WasmReturn ==
    /\ wasm.status = "functions"
    /\ wasm.function > Len(wasm.module.functions)
    /\ wasm' = [wasm EXCEPT
                  !.generator =
                      push_str(@,
                          (IF has_main(wasm.module)
                           THEN <<"(", "export", "\"main\"", "(", "func",
                                  "$main", ")", ")">>
                           ELSE <<>>) \o <<")">>),
                  !.status = "done"]
    /\ UNCHANGED <<backend, lexer, parser, x64, arm64>>

\* The modules generate is called on: the modules lower_ast makes of the
\* source programs, the assembled modules, a module without main and the
\* empty module.
WasmModules ==
    {m \in {lower_ast(run.statements) : run \in Runs} : ~m.panicked}
    \union {run.module : run \in AssembledRuns}
    \union {[functions |-> <<AssembledFunction("id", <<"x">>,
                                               <<Load("x"), Return(TRUE)>>)>>,
             constants |-> <<>>, panicked |-> FALSE],
            [functions |->
                <<AssembledFunction("main", <<>>,
                     <<PushConst(ConstString("s")), Unary("Neg"), Pop,
                       PushConst(ConstBoolean(TRUE)), PushConst(ConstNull),
                       Binary("Div"), Return(FALSE)>>)>>,
             constants |-> <<>>, panicked |-> FALSE],
            [functions |-> <<>>, constants |-> <<>>, panicked |-> FALSE]}

WasmInit ==
    /\ BackendIdle
    /\ lexer = Idle
    /\ parser = Idle
    /\ x64 = Idle
    /\ arm64 = Idle
    /\ \E m \in WasmModules : wasm = WasmCall(m)

WasmNext ==
    \/ WasmGenerate
    \/ WasmFunction
    \/ WasmInstruction
    \/ WasmFunctionEnd
    \/ WasmReturn

SpecWasm == WasmInit /\ [][WasmNext]_vars

(***************************************************************************)
(* The x86-64 code generator (src/codegen/mod.rs).  The output is modelled *)
(* as the sequence of its lines; a line holds its mnemonic or directive m, *)
(* its destination x, its source y, the symbol or addressing mode z of a   *)
(* memory operand, and its number n (immediate or displacement).           *)
(***************************************************************************)
Asm(m, x, y, z, n) == [m |-> m, x |-> x, y |-> y, z |-> z, n |-> n]
Op0(m) == Asm(m, "", "", "", 0)
Op1(m, x) == Asm(m, x, "", "", 0)
Op2(m, x, y) == Asm(m, x, y, "", 0)

CodeGenerator_new ==
    [output |-> <<>>, string_literals |-> <<>>, float_literals |-> <<>>,
     local_offsets |-> EmptyMap, current_stack_size |-> 0,
     panicked |-> FALSE]

reset_frame(generator) ==
    [generator EXCEPT !.local_offsets = EmptyMap, !.current_stack_size = 0]

x64_allocate_local(generator, name) ==
    [generator EXCEPT
        !.current_stack_size = @ + 8,
        !.local_offsets =
            MapInsert(@, name, -(generator.current_stack_size + 8))]

\* the registers the prologue reads the first six parameters from
x64_param_registers == <<"rdi", "rsi", "rdx", "rcx", "r8", "r9">>

\* str_i: .string "s"  and  float_i: .double f  for the literals the
\* generator holds when generate is entered
x64_string_lines(string_literals) ==
    [i \in 1..Len(string_literals) |->
        Asm(".string", "str_" \o ToString(i - 1), string_literals[i], "", 0)]

x64_float_lines(float_literals) ==
    [i \in 1..Len(float_literals) |->
        Asm(".double", "float_" \o ToString(i - 1),
            number_text(float_literals[i]), "", 0)]

\* generate up to its loop over the functions
x64_generate(generator) ==
    push_str(generator,
             <<Op0(".data")>>
             \o x64_string_lines(generator.string_literals)
             \o x64_float_lines(generator.float_literals)
             \o <<Op0(".text")>>)

\* the loop over the parameters of generate_function, from the i-th on
RECURSIVE x64_params(_, _, _)
x64_params(generator, params, i) ==
    IF i > Len(params) THEN generator
    ELSE x64_params(
             push_str(x64_allocate_local(generator, params[i]),
                      IF i <= 6
                      THEN <<Asm("mov", "[rbp]", x64_param_registers[i], "",
                                 -(generator.current_stack_size + 8))>>
                      ELSE <<Asm("mov", "rax", "[rbp]", "",
                                 16 + (i - 7) * 8),
                             Asm("mov", "[rbp]", "rax", "",
                                 -(generator.current_stack_size + 8))>>),
             params, i + 1)

\* generate_function up to its loop over the instructions
x64_generate_function(generator, function) ==
    x64_params(
        push_str(reset_frame(generator),
                 <<Op1(".global", function.name),
                   Op1("label", function.name),
                   Op1("push", "rbp"),
                   Op2("mov", "rbp", "rsp")>>
                 \o (IF function.max_locals * 8 > 0
                     THEN <<Asm("sub", "rsp", "", "",
                                function.max_locals * 8)>>
                     ELSE <<>>)
                 \o <<Op1("push", "rbx"), Op1("push", "r12"),
                      Op1("push", "r13"), Op1("push", "r14"),
                      Op1("push", "r15")>>),
        function.params, 1)

generate_epilogue ==
    <<Op1("pop", "r15"), Op1("pop", "r14"), Op1("pop", "r13"),
      Op1("pop", "r12"), Op1("pop", "rbx"), Op2("mov", "rsp", "rbp"),
      Op1("pop", "rbp"), Op0("ret")>>

x64_compare(set) ==
    <<Op2("ucomisd", "xmm0", "xmm1"), Op1(set, "al"),
      Op2("movzx", "rax", "al"), Op1("push", "rax")>>

x64_arithmetic(m) ==
    <<Op2(m, "xmm0", "xmm1"), Asm("sub", "rsp", "", "", 8),
      Op2("movsd", "[rsp]", "xmm0")>>

x64_generate_binary_op(generator, op) ==
    IF op \in {"And", "Or"} THEN [generator EXCEPT !.panicked = TRUE]
    ELSE push_str(generator,
             <<Op2("movsd", "xmm1", "[rsp]"), Asm("add", "rsp", "", "", 8),
               Op2("movsd", "xmm0", "[rsp]"), Asm("add", "rsp", "", "", 8)>>
             \o CASE op = "Add" -> x64_arithmetic("addsd")
                  [] op = "Sub" -> x64_arithmetic("subsd")
                  [] op = "Mul" -> x64_arithmetic("mulsd")
                  [] op = "Div" -> x64_arithmetic("divsd")
                  [] op = "Eq" -> x64_compare("sete")
                  [] op = "Lt" -> x64_compare("setb")
                  [] op = "Gt" -> x64_compare("seta")
                  [] op = "Ge" -> x64_compare("setae")
                  [] op = "Le" -> x64_compare("setbe"))

x64_generate_unary_op(generator, op) ==
    push_str(generator,
        CASE op = "Neg" -> <<Op2("movsd", "xmm0", "[rsp]"),
                             Op2("xorpd", "xmm1", "xmm1"),
                             Op2("subsd", "xmm1", "xmm0"),
                             Op2("movsd", "[rsp]", "xmm1")>>
          [] op = "Not" -> <<Op1("pop", "rax"),
                             Asm("xor", "rax", "", "", 1),
                             Op1("push", "rax")>>)

\* the Call arm: the alignment padding, the call, the clean-up of the
\* arguments and the push of the result
x64_generate_call(generator, name, argc) ==
    push_str(generator,
        (IF argc % 2 = 1 THEN <<Asm("sub", "rsp", "", "", 8)>> ELSE <<>>)
        \o <<Op1("call", name)>>
        \o (IF (IF argc % 2 = 0 THEN argc * 8 ELSE (argc + 1) * 8) > 0
            THEN <<Asm("add", "rsp", "", "",
                       IF argc % 2 = 0 THEN argc * 8 ELSE (argc + 1) * 8)>>
            ELSE <<>>)
        \o <<Op1("push", "rax")>>)

x64_generate_const(generator, constant) ==
    CASE constant.t = "Number" ->
           push_str([generator EXCEPT !.float_literals = Append(@, constant)],
                    <<Asm("movsd", "xmm0", "[rip]",
                          "float_" \o ToString(Len(generator.float_literals)),
                          0),
                      Asm("sub", "rsp", "", "", 8),
                      Op2("movsd", "[rsp]", "xmm0")>>)
      [] constant.t = "String" ->
           push_str([generator EXCEPT
                        !.string_literals = Append(@, constant.s)],
                    <<Asm("lea", "rax", "[rip]",
                          "str_" \o ToString(Len(generator.string_literals)),
                          0),
                      Op1("push", "rax")>>)
      [] constant.t = "Boolean" ->
           push_str(generator,
                    <<Asm("push", "", "", "", IF constant.b THEN 1 ELSE 0)>>)
      [] constant.t = "Null" ->
           push_str(generator, <<Asm("push", "", "", "", 0)>>)

x64_generate_instruction(generator, instruction) ==
    CASE instruction.op = "Pop" ->
           push_str(generator, <<Asm("add", "rsp", "", "", 8)>>)
      [] instruction.op = "Dup" ->
           push_str(generator,
                    <<Op2("mov", "rax", "[rsp]"), Op1("push", "rax")>>)
      [] instruction.op = "PushConst" ->
           x64_generate_const(generator, instruction.c)
      [] instruction.op = "Load" ->
           IF instruction.s \in DOMAIN generator.local_offsets
           THEN push_str(generator,
                    <<Asm("mov", "rax", "[rbp]", "",
                          generator.local_offsets[instruction.s]),
                      Op1("push", "rax")>>)
           ELSE [generator EXCEPT !.panicked = TRUE]
      [] instruction.op = "Store" ->
           IF instruction.s \in DOMAIN generator.local_offsets
           THEN push_str(generator,
                    <<Op1("pop", "rax"),
                      Asm("mov", "[rbp]", "rax", "",
                          generator.local_offsets[instruction.s])>>)
           ELSE push_str(x64_allocate_local(generator, instruction.s),
                    <<Op1("pop", "rax"),
                      Asm("mov", "[rbp]", "rax", "",
                          -(generator.current_stack_size + 8))>>)
      [] instruction.op = "Binary" ->
           x64_generate_binary_op(generator, instruction.s)
      [] instruction.op = "Unary" ->
           x64_generate_unary_op(generator, instruction.s)
      [] instruction.op = "Call" ->
           x64_generate_call(generator, instruction.s, instruction.n)
      [] instruction.op = "Return" ->
           push_str(generator,
                    (IF instruction.flag THEN <<Op1("pop", "rax")>>
                     ELSE <<>>) \o generate_epilogue)
      [] instruction.op = "Label" ->
           push_str(generator, <<Op1("label", "." \o instruction.s)>>)
      [] instruction.op = "Jump" ->
           push_str(generator, <<Op1("jmp", "." \o instruction.s)>>)
      [] instruction.op = "JumpIf" ->
           push_str(generator,
                    <<Op1("pop", "rax"), Op2("test", "rax", "rax"),
                      Op1("jnz", "." \o instruction.s)>>)

\* a generator variable holds the generator, the module generate was
\* called on, where the loops over the functions and their instructions
\* are, and the text generate returned
CodegenCall(generator, ir_module) ==
    [generator |-> generator, module |-> ir_module, function |-> 0,
     instruction |-> 0, text |-> <<>>, status |-> "called"]

\* the position after the instruction-th instruction of the function-th
\* function has been generated
NextPosition(call) ==
    IF call.instruction
           < Len(call.module.functions[call.function].instructions)
    THEN [call EXCEPT !.instruction = @ + 1]
    ELSE [call EXCEPT !.function = @ + 1, !.instruction = 0]

Generated(call, generator) ==
    IF generator.panicked
    THEN [call EXCEPT !.generator = generator, !.status = "panicked"]
    ELSE [NextPosition(call) EXCEPT !.generator = generator]

X64Generate ==
    /\ x64.status = "called"
    /\ x64' = [x64 EXCEPT !.generator = x64_generate(@),
                          !.function = 1,
                          !.status = "functions"]
    /\ UNCHANGED <<backend, lexer, parser, wasm, arm64>>

X64Function ==
    /\ x64.status = "functions"
    /\ x64.function <= Len(x64.module.functions)
    /\ x64.instruction = 0
    /\ x64' = Generated(x64,
                  x64_generate_function(x64.generator,
                                        x64.module.functions[x64.function]))
    /\ UNCHANGED <<backend, lexer, parser, wasm, arm64>>

X64Instruction ==
    /\ x64.status = "functions"
    /\ x64.function <= Len(x64.module.functions)
    /\ x64.instruction >= 1
    /\ x64' = Generated(x64,
                  x64_generate_instruction(
                      x64.generator,
                      x64.module.functions[x64.function].instructions[
                          x64.instruction]))
    /\ UNCHANGED <<backend, lexer, parser, wasm, arm64>>

\* std::mem::take(&mut self.output)
X64Return ==
    /\ x64.status = "functions"
    /\ x64.function > Len(x64.module.functions)
    /\ x64' = [x64 EXCEPT !.text = x64.generator.output,
                          !.generator.output = <<>>,
                          !.status = "done"]
    /\ UNCHANGED <<backend, lexer, parser, wasm, arm64>>

(***************************************************************************)
(* The AArch64 code generator (src/codegen/arm64.rs).  A load or store     *)
(* holds its register in x, the base of its address in y and in z "!" for  *)
(* a pre-indexed, "post" for a post-indexed address or the symbol of the   *)
(* offset; a register pair holds "[sp]!" or "[sp]post" in z.               *)
(***************************************************************************)
ARM64Generator_new ==
    [output |-> <<>>, string_literals |-> <<>>, float_literals |-> <<>>,
     local_offsets |-> EmptyMap, current_stack_size |-> 0,
     label_counter |-> 0, panicked |-> FALSE]

arm64_reset_state(generator) ==
    [generator EXCEPT !.local_offsets = EmptyMap, !.current_stack_size = 0]

arm64_allocate_local(generator, name) ==
    [generator EXCEPT
        !.current_stack_size = @ - 8,
        !.local_offsets = MapInsert(@, name, generator.current_stack_size - 8)]

\* the registers of the first eight parameters and arguments
arm64_registers == <<"x0", "x1", "x2", "x3", "x4", "x5", "x6", "x7">>

arm64_push(register) == Asm("str", register, "[sp]", "!", -8)
arm64_pop(register) == Asm("ldr", register, "[sp]", "post", 8)

\* .LCi: .asciz "s"  and  .LCDi: .double f  for the literals the generator
\* holds when generate is entered
arm64_string_lines(string_literals) ==
    [i \in 1..(2 * Len(string_literals)) |->
        IF i % 2 = 1 THEN Op1("label", ".LC" \o ToString((i - 1) \div 2))
        ELSE Op1(".asciz", string_literals[i \div 2])]

arm64_float_lines(float_literals) ==
    [i \in 1..(2 * Len(float_literals)) |->
        IF i % 2 = 1 THEN Op1("label", ".LCD" \o ToString((i - 1) \div 2))
        ELSE Op1(".double", number_text(float_literals[i \div 2]))]

\* generate up to its loop over the functions
arm64_generate(generator) ==
    push_str(generator,
             <<Op1(".section", "__DATA,__data")>>
             \o arm64_string_lines(generator.string_literals)
             \o arm64_float_lines(generator.float_literals)
             \o <<Op1(".section", "__TEXT,__text")>>)

\* the loop over the parameters of generate_function, from the i-th on
RECURSIVE arm64_params(_, _, _)
arm64_params(generator, params, i) ==
    IF i > Len(params) THEN generator
    ELSE IF i > 8 THEN [generator EXCEPT !.panicked = TRUE]
    ELSE arm64_params(
             push_str(arm64_allocate_local(generator, params[i]),
                      <<Asm("str", arm64_registers[i], "[fp]", "",
                            generator.current_stack_size - 8)>>),
             params, i + 1)

\* generate_function up to its loop over the instructions
arm64_generate_function(generator, function) ==
    arm64_params(
        push_str(arm64_reset_state(generator),
                 <<Op1(".global", "_" \o function.name),
                   Asm(".p2align", "", "", "", 2),
                   Op1("label", "_" \o function.name),
                   Asm("stp", "fp", "lr", "[sp]!", -16),
                   Op2("mov", "fp", "sp")>>
                 \o (IF ((function.max_locals * 8 + 15) \div 16) * 16 > 0
                     THEN <<Asm("sub", "sp", "sp", "",
                                ((function.max_locals * 8 + 15) \div 16)
                                    * 16)>>
                     ELSE <<>>)
                 \o <<Asm("stp", "x19", "x20", "[sp]!", -16),
                      Asm("stp", "x21", "x22", "[sp]!", -16),
                      Asm("stp", "x23", "x24", "[sp]!", -16),
                      Asm("stp", "x25", "x26", "[sp]!", -16),
                      Asm("stp", "x27", "x28", "[sp]!", -16)>>),
        function.params, 1)

arm64_generate_epilogue ==
    <<Asm("ldp", "x27", "x28", "[sp]post", 16),
      Asm("ldp", "x25", "x26", "[sp]post", 16),
      Asm("ldp", "x23", "x24", "[sp]post", 16),
      Asm("ldp", "x21", "x22", "[sp]post", 16),
      Asm("ldp", "x19", "x20", "[sp]post", 16),
      Op2("mov", "sp", "fp"),
      Asm("ldp", "fp", "lr", "[sp]post", 16),
      Op0("ret")>>

generate_push_const(generator, constant) ==
    CASE constant.t = "Number" ->
           push_str([generator EXCEPT !.float_literals = Append(@, constant)],
                    <<Op2("adrp", "x0",
                          ".LCD" \o ToString(Len(generator.float_literals))
                              \o "@PAGE"),
                      Asm("ldr", "d0", "[x0]",
                          ".LCD" \o ToString(Len(generator.float_literals))
                              \o "@PAGEOFF", 0),
                      arm64_push("d0")>>)
      [] constant.t = "String" ->
           push_str([generator EXCEPT
                        !.string_literals = Append(@, constant.s)],
                    <<Op2("adrp", "x0",
                          ".LC" \o ToString(Len(generator.string_literals))
                              \o "@PAGE"),
                      Asm("add", "x0", "x0",
                          ".LC" \o ToString(Len(generator.string_literals))
                              \o "@PAGEOFF", 0),
                      arm64_push("x0")>>)
      [] constant.t = "Boolean" ->
           push_str(generator,
                    <<Asm("mov", "x0", "", "", IF constant.b THEN 1 ELSE 0),
                      arm64_push("x0")>>)
      [] constant.t = "Null" -> push_str(generator, <<arm64_push("xzr")>>)

generate_load(generator, name) ==
    IF name \in DOMAIN generator.local_offsets
    THEN push_str(generator,
                  <<Asm("ldr", "x0", "[fp]", "",
                        generator.local_offsets[name]),
                    arm64_push("x0")>>)
    ELSE [generator EXCEPT !.panicked = TRUE]

generate_store(generator, name) ==
    IF name \in DOMAIN generator.local_offsets
    THEN push_str(generator,
                  <<arm64_pop("x0"),
                    Asm("str", "x0", "[fp]", "",
                        generator.local_offsets[name])>>)
    ELSE push_str(arm64_allocate_local(generator, name),
                  <<arm64_pop("x0"),
                    Asm("str", "x0", "[fp]", "",
                        generator.current_stack_size - 8)>>)

arm64_compare(condition) ==
    <<Op2("cmp", "x0", "x1"), Op2("cset", "x0", condition)>>

arm64_generate_binary_op(generator, op) ==
    push_str(generator,
        <<arm64_pop("x1"), arm64_pop("x0")>>
        \o CASE op = "Add" -> <<Asm("add", "x0", "x0", "x1", 0)>>
             [] op = "Sub" -> <<Asm("sub", "x0", "x0", "x1", 0)>>
             [] op = "Mul" -> <<Asm("mul", "x0", "x0", "x1", 0)>>
             [] op = "Div" -> <<Asm("sdiv", "x0", "x0", "x1", 0)>>
             [] op = "Eq" -> arm64_compare("eq")
             [] op = "Lt" -> arm64_compare("lt")
             [] op = "Gt" -> arm64_compare("gt")
             [] op = "Le" -> arm64_compare("le")
             [] op = "Ge" -> arm64_compare("ge")
             [] op = "And" -> <<Asm("and", "x0", "x0", "x1", 0)>>
             [] op = "Or" -> <<Asm("orr", "x0", "x0", "x1", 0)>>
        \o <<arm64_push("x0")>>)

arm64_generate_unary_op(generator, op) ==
    push_str(generator,
        <<arm64_pop("x0")>>
        \o CASE op = "Neg" -> <<Op2("neg", "x0", "x0")>>
             [] op = "Not" -> <<Asm("cmp", "x0", "", "", 0),
                                Op2("cset", "x0", "eq")>>
        \o <<arm64_push("x0")>>)

\* the registers handed out from the first argument on, as a loop over
\* 0..argc without `.rev()` would
call_registers_forward(argc) ==
    [k \in 1..argc |-> arm64_pop(arm64_registers[k])]

\* the loop `for i in (0..argc).rev()`: the k-th line pops into the
\* register of argument argc - k
call_registers(argc) ==
    [k \in 1..argc |-> arm64_pop(arm64_registers[argc - k + 1])]

generate_call(generator, name, argc) ==
    IF argc > 8 THEN [generator EXCEPT !.panicked = TRUE]
    ELSE push_str(generator,
                  call_registers(argc)
                  \o <<Op1("bl", "_" \o name), arm64_push("x0")>>)

arm64_generate_instruction(generator, instruction) ==
    CASE instruction.op = "PushConst" ->
           generate_push_const(generator, instruction.c)
      [] instruction.op = "Load" -> generate_load(generator, instruction.s)
      [] instruction.op = "Store" -> generate_store(generator, instruction.s)
      [] instruction.op = "Binary" ->
           arm64_generate_binary_op(generator, instruction.s)
      [] instruction.op = "Unary" ->
           arm64_generate_unary_op(generator, instruction.s)
      [] instruction.op = "Call" ->
           generate_call(generator, instruction.s, instruction.n)
      [] instruction.op = "Return" ->
           push_str(generator,
                    (IF instruction.flag THEN <<arm64_pop("x0")>> ELSE <<>>)
                    \o arm64_generate_epilogue)
      [] instruction.op = "Jump" ->
           push_str(generator, <<Op1("b", instruction.s)>>)
      [] instruction.op = "JumpIf" ->
           push_str(generator,
                    <<arm64_pop("x0"), Asm("cmp", "x0", "", "", 0),
                      Op1("b.ne", instruction.s)>>)
      [] instruction.op = "Label" ->
           push_str(generator, <<Op1("label", instruction.s)>>)
      [] instruction.op = "Pop" ->
           push_str(generator, <<Asm("add", "sp", "sp", "", 8)>>)
      [] instruction.op = "Dup" ->
           push_str(generator,
                    <<Asm("ldr", "x0", "[sp]", "", 0), arm64_push("x0")>>)

Arm64Generate ==
    /\ arm64.status = "called"
    /\ arm64' = [arm64 EXCEPT !.generator = arm64_generate(@),
                              !.function = 1,
                              !.status = "functions"]
    /\ UNCHANGED <<backend, lexer, parser, wasm, x64>>

Arm64Function ==
    /\ arm64.status = "functions"
    /\ arm64.function <= Len(arm64.module.functions)
    /\ arm64.instruction = 0
    /\ arm64' = Generated(arm64,
                    arm64_generate_function(
                        arm64.generator,
                        arm64.module.functions[arm64.function]))
    /\ UNCHANGED <<backend, lexer, parser, wasm, x64>>

Arm64Instruction ==
    /\ arm64.status = "functions"
    /\ arm64.function <= Len(arm64.module.functions)
    /\ arm64.instruction >= 1
    /\ arm64' = Generated(arm64,
                    arm64_generate_instruction(
                        arm64.generator,
                        arm64.module.functions[arm64.function].instructions[
                            arm64.instruction]))
    /\ UNCHANGED <<backend, lexer, parser, wasm, x64>>

\* self.output.clone()
Arm64Return ==
    /\ arm64.status = "functions"
    /\ arm64.function > Len(arm64.module.functions)
    /\ arm64' = [arm64 EXCEPT !.text = arm64.generator.output,
                              !.status = "done"]
    /\ UNCHANGED <<backend, lexer, parser, wasm, x64>>

(***************************************************************************)
(* The modules the two assembler generators are called on.                 *)
(***************************************************************************)
\* function f(p1, ..., pn) { return p1; }     (return 0; when n is 0)
\* function main() { return f(1, ..., n); }
ArgumentsProgram(n) ==
    <<FunctionDeclaration("f", [k \in 1..n |-> "p" \o ToString(k)],
        <<ReturnSome(IF n = 0 THEN ExprNumber(0) ELSE Identifier("p1"))>>),
      FunctionDeclaration("main", <<>>,
        <<ReturnSome(FunctionCall("f", [k \in 1..n |-> ExprNumber(k)]))>>)>>

\* function g(u, v, w) { return w; }
\* function main(a) { let t = 1; return g(a, "s", t + 2); }
MixedArguments ==
    <<FunctionDeclaration("g", <<"u", "v", "w">>,
        <<ReturnSome(Identifier("w"))>>),
      FunctionDeclaration("main", <<"a">>,
        <<Let("t", ExprNumber(1)),
          ReturnSome(FunctionCall("g",
              <<Identifier("a"), ExprString("s"),
                BinaryOp("+", Identifier("t"), ExprNumber(2))>>))>>)>>

\* function main() { let s = "hi"; let t = "yo"; return 1 + 2; }
ConstantsProgram ==
    <<FunctionDeclaration("main", <<>>,
        <<Let("s", ExprString("hi")),
          Let("t", ExprString("yo")),
          ReturnSome(BinaryOp("+", ExprNumber(1), ExprNumber(2)))>>)>>

\* function a(x) { if (x) { return 1; } return 0; }
\* function b(y) { if (y) { return 2; } return 0; }
LabelsProgram ==
    <<FunctionDeclaration("a", <<"x">>,
        <<If(Identifier("x"), <<ReturnSome(ExprNumber(1))>>),
          ReturnSome(ExprNumber(0))>>),
      FunctionDeclaration("b", <<"y">>,
        <<If(Identifier("y"), <<ReturnSome(ExprNumber(2))>>),
          ReturnSome(ExprNumber(0))>>)>>

CodegenPrograms ==
    {ArgumentsProgram(n) : n \in 0..MaxArgs}
    \cup {MixedArguments, ConstantsProgram, LabelsProgram, Fib, EXAMPLE_JS,
          SumLoop("<="), SumLoopTo5, IfPositive, IfValue, VariableScoping,
          CalleeLet(1, 2), RecursiveLet}
    \cup {ShortCircuitOperands(op) : op \in {"&&", "||"}}
    \cup {BinaryOperands(op) : op \in ParserOperators}
    \cup {CallProgram(body, argc) : body \in CalleeBodies, argc \in 0..3}

\* the modules lower_ast makes of the programs, and two assembled ones: a
\* Binary(And) and a unary operator of each kind, and the empty module
CodegenModules ==
    {m \in {lower_ast(program) : program \in CodegenPrograms} : ~m.panicked}
    \cup {[functions |->
              <<AssembledFunction("main", <<"x">>,
                   <<Load("x"), Unary("Neg"), Load("x"), Unary("Not"),
                     Binary("And"), Return(TRUE)>>)>>,
           constants |-> <<>>, panicked |-> FALSE],
          [functions |-> <<>>, constants |-> <<>>, panicked |-> FALSE]}

CodegenInit ==
    /\ BackendIdle
    /\ lexer = Idle
    /\ parser = Idle
    /\ wasm = Idle
    /\ \E m \in CodegenModules :
          \/ x64 = CodegenCall(CodeGenerator_new, m) /\ arm64 = Idle
          \/ x64 = Idle /\ arm64 = CodegenCall(ARM64Generator_new, m)

CodegenNext ==
    \/ X64Generate
    \/ X64Function
    \/ X64Instruction
    \/ X64Return
    \/ Arm64Generate
    \/ Arm64Function
    \/ Arm64Instruction
    \/ Arm64Return

SpecCodegen == CodegenInit /\ [][CodegenNext]_vars

(***************************************************************************)
(* Properties.                                                             *)
(***************************************************************************)
\* the value a literal expression evaluates to
LiteralValue(e) ==
    CASE e.k = "Number" -> ValueNumber(e.n)
      [] e.k = "String" -> ValueString(e.s)
      [] e.k = "Boolean" -> ValueBoolean(e.b)
      [] e.k = "Null" -> ValueNull

\* the value of a literal or of a comparison of two literals
OperandValue(e) ==
    IF e.k = "BinaryOp"
    THEN binary_result(BinaryOpOf(e.s), LiteralValue(e.kids[1]),
                       LiteralValue(e.kids[2]))
    ELSE LiteralValue(e)

\* truthiness as the specification's table gives it
Truthy(v) ==
    CASE v.t = "Boolean" -> v.b
      [] v.t = "Number" -> v.s # "NaN" /\ v # ValueNumber(0)
      [] v.t = "String" -> v.s # ""
      [] OTHER -> FALSE

\* whether the left operand alone decides l op r
ShortCircuits(op, l) == IF op = "&&" THEN ~Truthy(l) ELSE Truthy(l)

\* C1: in f() && g(), g is never called when f() returns a falsy value;
\* in f() || g(), g is never called when f() returns a truthy value.
C1_RightOperandSkipped ==
    \A op \in ShortCircuitOps, a \in Literals, b \in Literals :
        (ast = ShortCircuitCalls(op, a, b) /\ ShortCircuits(op, LiteralValue(a)))
        => \A i \in 1..Len(frames) : frames[i].function.name # "g"

\* C2: a && b evaluates to a when a is falsy and to b otherwise; a || b
\* evaluates to a when a is truthy and to b otherwise.
ShortCircuitValue(op, l, r) == IF ShortCircuits(op, l) THEN l ELSE r

C2_ContributingOperand ==
    status = "returned" =>
        /\ \A op \in ShortCircuitOps :
              ast = ShortCircuitOperands(op) =>
                return_value = ShortCircuitValue(op, entry.args[1],
                                                 entry.args[2])
        /\ \A op \in ShortCircuitOps,
              l \in Comparisons \cup {ExprBoolean(TRUE), ExprBoolean(FALSE)},
              r \in Comparisons \cup {ExprBoolean(TRUE), ExprBoolean(FALSE)} :
              ast = ShortCircuitLiterals(op, l, r) =>
                return_value = ShortCircuitValue(op, OperandValue(l),
                                                 OperandValue(r))

\* C3: a while loop runs its body once for each truthy evaluation of its
\* condition and ends at the first falsy one: the loop guarded by i <= n
\* that adds i = 1, 2, ... to s returns 1 + ... + n, 15 for n = 5.
C3_WhileSums ==
    status = "returned" =>
        /\ ast = SumLoopTo5 => return_value = ValueNumber(15)
        /\ ast = SumLoop("<=") =>
              return_value =
                ValueNumber((entry.args[1].n * (entry.args[1].n + 1)) \div 2)

\* C4: an if statement runs its then-branch when the condition value is
\* truthy and its else-branch (nothing when absent) when it is falsy, and
\* never both.
C4_IfSelectsBranch ==
    status = "returned" =>
        /\ ast = IfPositive =>
              return_value =
                ValueBoolean(Truthy(binary_gt(entry.args[1], ValueNumber(0))))
        /\ ast = IfValue =>
              return_value = IF Truthy(entry.args[1]) THEN ValueString("then")
                             ELSE ValueString("else")
        /\ ast = IfNoElse =>
              output = IF Truthy(entry.args[1])
                       THEN <<<<"then">>, <<"after">>>>
                       ELSE <<<<"after">>>>
        /\ ast = IfNested =>
              output = IF Truthy(entry.args[1])
                       THEN IF Truthy(entry.args[2]) THEN <<<<"tt">>>>
                            ELSE <<<<"tf">>>>
                       ELSE IF Truthy(entry.args[2]) THEN <<<<"ft">>>>
                            ELSE <<>>

C4_Witness ==
    /\ status = "returned"
    /\ ast = IfValue
    /\ entry.args = <<ValueNumber(1)>>
    /\ return_value = ValueString("then")

\* C5: c ? t : e evaluates to t when c is truthy and to e when c is falsy,
\* and evaluates only the selected branch.
C5_TernarySelects ==
    status = "returned" =>
        /\ ast = TernaryOf(Identifier("x")) =>
              return_value = IF Truthy(entry.args[1]) THEN ValueString("then")
                             ELSE ValueString("else")
        /\ ast = TernaryCalls =>
              /\ return_value = IF Truthy(entry.args[1])
                                THEN ValueString("then")
                                ELSE ValueString("else")
              /\ output = IF Truthy(entry.args[1]) THEN <<<<"t">>>>
                          ELSE <<<<"e">>>>

\* C6: fib(n) returns the n-th Fibonacci number for n in 0..MaxFib, 55 for
\* n = 10, and every active invocation of fib keeps its own binding of n:
\* the n of a nested invocation is the caller's n minus 1 or minus 2.
RECURSIVE Fibonacci(_)
Fibonacci(n) == IF n <= 1 THEN n ELSE Fibonacci(n - 1) + Fibonacci(n - 2)

C6_FibReturnsFibonacci ==
    /\ (status = "returned" /\ ast = Fib) =>
          return_value = ValueNumber(Fibonacci(entry.args[1].n))
    /\ (status = "returned" /\ ast = EXAMPLE_JS) =>
          /\ return_value = ValueNumber(55)
          /\ output = <<<<"10">>, <<"55">>>>
    /\ ast = Fib =>
          \A i \in 1..Len(frames) :
              /\ "n" \in DOMAIN frames[i].locals
              /\ IF i = 1 THEN frames[i].locals["n"] = entry.args[1]
                 ELSE frames[i].locals["n"] \in
                        {ValueNumber(frames[i - 1].locals["n"].n - 1),
                         ValueNumber(frames[i - 1].locals["n"].n - 2)}

C6_Witness ==
    /\ status = "returned"
    /\ ast = Fib
    /\ entry.args = <<ValueNumber(10)>>
    /\ return_value = ValueNumber(55)

C8_StoreWritesFrame ==
    [][(Fetching /\ Instruction.op = "Store") =>
          /\ Instruction.s \in DOMAIN frames'[Len(frames)].locals
          /\ frames'[Len(frames)].locals[Instruction.s] = pop_value(stack)
          /\ globals' = globals]_vars

\* C9: Call(name, N) with at least N values on the stack removes the top N
\* values, binds them to the callee's parameters left to right in a new
\* frame whose stack_base is the depth left; when that frame returns it is
\* popped, the stack is cut to stack_base and exactly one value is pushed,
\* the value Return(true) popped or Undefined.  A native callee's result
\* (Undefined) is pushed at once.
C9_CallStep ==
    (/\ Fetching
     /\ Instruction.op = "Call"
     /\ Instruction.n <= Len(stack)
     /\ Instruction.s \in DOMAIN functions)
    => LET N == Instruction.n
           depth == Len(stack)
           callee == functions[Instruction.s]
           params == callee.function.params
       IN  IF callee.kind = "IR"
           THEN /\ Len(frames') = Len(frames) + 1
                /\ stack' = SubSeq(stack, 1, depth - N)
                /\ frames'[Len(frames')].stack_base = depth - N
                /\ frames'[Len(frames')].function.name = Instruction.s
                /\ \A i \in 1..Len(params) :
                      IF i <= N
                      THEN /\ params[i] \in DOMAIN frames'[Len(frames')].locals
                           /\ frames'[Len(frames')].locals[params[i]]
                                = stack[depth - N + i]
                      ELSE params[i] \notin DOMAIN frames'[Len(frames')].locals
                /\ \A k \in 1..Len(frames) :
                      /\ frames'[k].stack_base = frames[k].stack_base
                      /\ frames'[k].locals = frames[k].locals
           ELSE /\ frames' = Advanced
                /\ stack' = Append(SubSeq(stack, 1, depth - N), ValueUndefined)

C9_ReturnStep ==
    (/\ Fetching
     /\ Instruction.op = "Return"
     /\ Len(frames) > 1)
    => LET base == CurrentFrame.stack_base
       IN  /\ frames' = SubSeq(frames, 1, Len(frames) - 1)
           /\ Len(stack) >= base
           /\ Len(stack') = base + 1
           /\ SubSeq(stack', 1, base) = SubSeq(stack, 1, base)
           /\ stack'[base + 1] =
                IF ~Instruction.flag THEN ValueUndefined
                ELSE IF Len(stack) = 0 THEN ValueUndefined
                ELSE stack[Len(stack)]

C9_CallContract == [][C9_CallStep /\ C9_ReturnStep]_vars

\* callee(x, y) { x && y; return x; } called with (5, true) has returned
\* to main and left 5 above the 10 main had pushed
C9_Witness ==
    /\ status = "running"
    /\ \E body \in CalleeBodies :
          /\ Len(body) = 2
          /\ body[1].k = "ExpressionStatement"
          /\ ast = CallProgram(body, 2)
    /\ entry.args = <<ValueNumber(5), ValueBoolean(TRUE)>>
    /\ Len(frames) = 1
    /\ stack = <<ValueNumber(10), ValueNumber(5)>>

\* C10: in every function lower_ast produces, no two Label instructions
\* carry the same name and every Jump and JumpIf names a label of the
\* same function.
C10_LabelsUniqueAndResolved ==
    status # "parsed" =>
        \A k \in 1..Len(module.functions) :
            LET ins == module.functions[k].instructions
            IN  /\ \A i, j \in 1..Len(ins) :
                      (ins[i].op = "Label" /\ ins[j].op = "Label"
                       /\ ins[i].s = ins[j].s) => i = j
                /\ \A i \in 1..Len(ins) :
                      ins[i].op \in {"Jump", "JumpIf"} =>
                        \E j \in 1..Len(ins) :
                            ins[j].op = "Label" /\ ins[j].s = ins[i].s

\* a lowered module with a function of twelve labels beside another
\* function that has labels of its own
C10_Witness ==
    /\ status = "lowered"
    /\ \E k \in 1..Len(module.functions) :
          Cardinality({i \in 1..Len(module.functions[k].instructions) :
                         module.functions[k].instructions[i].op = "Label"})
            >= 12
    /\ \E k \in 1..Len(module.functions) :
          /\ module.functions[k].name = "other"
          /\ \E i \in 1..Len(module.functions[k].instructions) :
                module.functions[k].instructions[i] = Label("L1")

\* whether lowering a statement emits any instruction: only a Block of
\* nothing but such Blocks emits none
RECURSIVE EmitsNothing(_)
EmitsNothing(stmt) ==
    /\ stmt.k = "Block"
    /\ \A i \in 1..Len(stmt.body) : EmitsNothing(stmt.body[i])

\* whether the last instruction the statements stmts[1..i] emit comes from
\* a Return statement
RECURSIVE EndsInReturn(_, _)
EndsInReturn(stmts, i) ==
    IF i = 0 THEN FALSE
    ELSE IF EmitsNothing(stmts[i]) THEN EndsInReturn(stmts, i - 1)
    ELSE \/ stmts[i].k = "Return"
         \/ /\ stmts[i].k = "Block"
            /\ EndsInReturn(stmts[i].body, Len(stmts[i].body))

\* the number of Return statements lowering meets in stmts[i..]
RECURSIVE ReturnStatements(_, _)
ReturnStatements(stmts, i) ==
    IF i > Len(stmts) THEN 0
    ELSE LET stmt == stmts[i]
             here == CASE stmt.k = "Return" -> 1
                       [] stmt.k = "If" ->
                            ReturnStatements(stmt.body, 1)
                            + ReturnStatements(stmt.orelse, 1)
                       [] stmt.k \in {"While", "Block"} ->
                            ReturnStatements(stmt.body, 1)
                       [] OTHER -> 0
         IN  here + ReturnStatements(stmts, i + 1)

ReturnInstructions(instructions) ==
    Cardinality({i \in 1..Len(instructions) : instructions[i].op = "Return"})

\* C11: the last instruction of every function lower_ast produces is a
\* Return, and the function holds one Return per Return statement of its
\* body plus an implicit Return(false) exactly when the last instruction
\* the body emitted is not a Return.
C11_LastInstructionIsReturn ==
    status = "lowered" =>
        LET decls == SelectSeq(ast, LAMBDA st : st.k = "FunctionDeclaration")
        IN  /\ Len(module.functions) = Len(decls)
            /\ \A k \in 1..Len(decls) :
                  LET ins == module.functions[k].instructions
                      body == decls[k].body
                      explicit == EndsInReturn(body, Len(body))
                  IN  /\ Len(ins) > 0
                      /\ ins[Len(ins)].op = "Return"
                      /\ ReturnInstructions(ins) =
                            ReturnStatements(body, 1)
                            + (IF explicit THEN 0 ELSE 1)
                      /\ ~explicit => ins[Len(ins)] = Return(FALSE)

\* main(x) { return; {} } is lowered to the prologue and the one Return of
\* its body, and idle() { } to the implicit Return alone
C11_Witness ==
    /\ status = "lowered"
    /\ ast = ReturnTailProgram(<<ReturnNone, Block(<<>>)>>)
    /\ module.functions[1].instructions
         = <<Load("x"), Store("x"), Return(FALSE)>>
    /\ module.functions[2].instructions = <<Return(FALSE)>>

\* C12: Load(n) pushes the value n has in the current frame's locals when
\* it is bound there, otherwise the value n has in the globals, otherwise
\* Undefined; test() of test_variable_scoping, which reads the global it
\* does not shadow, returns Number(30).
C12_LoadStep ==
    (Fetching /\ Instruction.op = "Load") =>
        LET n == Instruction.s
            locals == frames[Len(frames)].locals
        IN  /\ stack' = Append(stack,
                    IF n \in DOMAIN locals THEN locals[n]
                    ELSE IF n \in DOMAIN globals THEN globals[n]
                    ELSE ValueUndefined)
            /\ globals' = globals
            /\ frames'[Len(frames)].locals = locals

C12_LoadReadsFrameThenGlobals ==
    /\ [][C12_LoadStep]_vars
    /\ [](( /\ status = "returned"
            /\ ast = VariableScoping
            /\ "global" \in DOMAIN globals)
          => return_value = ValueNumber(30))

\* test(5) of function test(global) { return global; } has returned its
\* argument although the globals bind global to 10
C12_Witness ==
    /\ status = "returned"
    /\ ast = ShadowedGlobal
    /\ entry.args = <<ValueNumber(1)>>
    /\ globals = MapInsert(EmptyMap, "global", ValueNumber(10))
    /\ return_value = ValueNumber(1)

\* the string form of a value in a concatenation, as the specification's
\* coercion table gives it
CoercedString(v) ==
    CASE v.t = "String" -> v.s
      [] v.t = "Number" -> IF v.s = "NaN" THEN "NaN" ELSE ToString(v.n)
      [] v.t = "Boolean" -> IF v.b THEN "true" ELSE "false"
      [] v.t = "Null" -> "null"
      [] v.t = "Undefined" -> "undefined"

Sum(l, r) ==
    IF l.t = "Number" /\ r.t = "Number"
    THEN IF l.s = "NaN" \/ r.s = "NaN" THEN ValueNaN
         ELSE ValueNumber(l.n + r.n)
    ELSE IF l.t = "String" \/ r.t = "String"
    THEN ValueString(CoercedString(l) \o CoercedString(r))
    ELSE ValueUndefined

\* C13: x + y is the numeric sum of two Numbers, the concatenation of the
\* operands' string forms (left first) when either is a String, and
\* Undefined for every other pair; "x=" + 42 is String("x=42").
C13_AddSemantics ==
    status = "returned" =>
        /\ ast = BinaryOperands("+") =>
              return_value = Sum(entry.args[1], entry.args[2])
        /\ ast = AddLiteral => return_value = ValueString("x=42")

\* main(true, "x=") has returned String("truex=")
C13_Witness ==
    /\ status = "returned"
    /\ ast = BinaryOperands("+")
    /\ entry.args = <<ValueBoolean(TRUE), ValueString("x=")>>
    /\ return_value = ValueString("truex=")

\* x op y for two Numbers (false when either is NaN) and for two Strings
\* in lexicographic order
Compared(op, x, y) ==
    LET less(a, b) == IF a.t = "Number"
                      THEN a.s = "" /\ b.s = "" /\ a.n < b.n
                      ELSE StringRank(a.s) < StringRank(b.s)
        same(a, b) == IF a.t = "Number" THEN a.s = "" /\ b.s = "" /\ a.n = b.n
                      ELSE a.s = b.s
    IN  CASE op = "<" -> less(x, y)
          [] op = ">" -> less(y, x)
          [] op = "<=" -> less(x, y) \/ same(x, y)
          [] op = ">=" -> less(y, x) \/ same(x, y)

\* C14: for two Numbers and for two Strings, x < y, x > y, x <= y and
\* x >= y compare the left operand x against the right operand y; every
\* other pair of operand types gives Undefined.
C14_ComparisonsLeftToRight ==
    status = "returned" =>
        \A op \in ComparisonOps :
            ast = BinaryOperands(op) =>
                LET x == entry.args[1]
                    y == entry.args[2]
                IN  return_value =
                        IF x.t = y.t /\ x.t \in {"Number", "String"}
                        THEN ValueBoolean(Compared(op, x, y))
                        ELSE ValueUndefined

\* main(5, 3) of return x <= y has returned Boolean(false)
C14_Witness ==
    /\ status = "returned"
    /\ ast = BinaryOperands("<=")
    /\ entry.args = <<ValueNumber(5), ValueNumber(3)>>
    /\ return_value = ValueBoolean(FALSE)

\* what main returns when each missing operand is taken as Undefined
UnderflowResult ==
    [Pop |-> ValueNumber(1),
     Dup |-> ValueUndefined,
     Store |-> ValueUndefined,
     Binary |-> ValueUndefined,
     Unary |-> ValueBoolean(TRUE),
     JumpIf |-> ValueNumber(1),
     Return |-> ValueUndefined,
     Call |-> ValueUndefined,
     CallNative |-> ValueUndefined]

\* C15: an instruction that needs more operands than the value stack
\* holds takes each missing operand as Undefined and execution goes on
\* without a runtime failure, for Pop, Dup, Store, Binary, Unary, JumpIf,
\* Return(true) and Call.
C15_UnderflowYieldsUndefined ==
    \A case \in DOMAIN UnderflowInstructions :
        module = UnderflowModule(case) =>
            /\ status # "panicked"
            /\ status = "returned" => return_value = UnderflowResult[case]

(***************************************************************************)
(* Properties of lexer::tokenize, checked under SpecLexer.                 *)
(***************************************************************************)
\* what a left-to-right reading of a text of quotes, backslashes and
\* letters makes of its string literals: quote is the opening quote of the
\* literal being read, "" outside one
RECURSIVE StringScan(_, _)
StringScan(chars, quote) ==
    IF chars = <<>>
    THEN IF quote = "" THEN "closed" ELSE "unterminated"
    ELSE IF quote = ""
    THEN IF chars[1] \in {"\"", "'"} THEN StringScan(Tail(chars), chars[1])
         ELSE IF chars[1] = "\\" THEN "error"
         ELSE StringScan(Tail(chars), "")
    ELSE IF chars[1] = quote THEN StringScan(Tail(chars), "")
    ELSE IF chars[1] = "\\"
    THEN IF Len(chars) = 1 THEN "unterminated"
         ELSE IF chars[2] \in {"n", "t", "r", "\\", "\"", "'"}
         THEN StringScan(SubSeq(chars, 3, Len(chars)), quote)
         ELSE "error"
    ELSE StringScan(Tail(chars), quote)

OfStrings(source) ==
    \A i \in 1..Len(source) : source[i] \in {"\"", "'", "\\", "n", "a"}

\* C16: tokenize fails when a string literal is not closed by a quote equal
\* to its opening quote before the end of the input, an input that ends
\* right after a backslash inside the literal included: it never returns
\* tokens for such a source, so no StringLiteral token is produced for the
\* unterminated literal.
C16_UnterminatedStringFails ==
    (/\ lexer.status # "idle"
     /\ OfStrings(lexer.source)
     /\ StringScan(lexer.source, "") = "unterminated")
    => lexer.status # "done"

\* the characters of a text that are outside every comment, and whether
\* every block comment of the text is closed; depth is the nesting of the
\* block comment being read
RECURSIVE Uncommented(_, _)
Uncommented(chars, depth) ==
    LET starts(a, b) == Len(chars) >= 2 /\ chars[1] = a /\ chars[2] = b
        after(n) == SubSeq(chars, n + 1, Len(chars))
    IN  IF chars = <<>> THEN [closed |-> depth = 0, text |-> ""]
        ELSE IF depth = 0
        THEN IF starts("/", "*") THEN Uncommented(after(2), 1)
             ELSE IF starts("/", "/")
             THEN LET ends == {i \in 1..Len(chars) : chars[i] = "\n"}
                      end == IF ends = {} THEN Len(chars) + 1
                             ELSE CHOOSE i \in ends : \A j \in ends : i <= j
                  IN  Uncommented(after(end - 1), 0)
             ELSE LET rest == Uncommented(after(1), 0)
                  IN  [rest EXCEPT !.text =
                           IF chars[1] \in {" ", "\n"} THEN @
                           ELSE chars[1] \o @]
        ELSE IF starts("/", "*") THEN Uncommented(after(2), depth + 1)
        ELSE IF starts("*", "/") THEN Uncommented(after(2), depth - 1)
        ELSE Uncommented(after(1), depth)

OfComments(source) ==
    \A i \in 1..Len(source) : source[i] \in {"/", "*", "a", "b", "c", "d",
                                              "e", " ", "\n"}

\* the text the tokens were made from
RECURSIVE TokenText(_)
TokenText(tokens) ==
    IF tokens = <<>> THEN ""
    ELSE LET token == tokens[1]
         IN  (CASE token.token_type = "Identifier" -> token.text
                [] token.token_type = "Multiply" -> "*"
                [] token.token_type = "Divide" -> "/"
                [] OTHER -> "?")
             \o TokenText(Tail(tokens))

\* a step of tokenize around a block comment
C17_CommentStep ==
    LET starts(a, b) == /\ Len(lexer.chars) >= 2
                        /\ lexer.chars[1] = a
                        /\ lexer.chars[2] = b
        skips(n) == lexer'.chars = SubSeq(lexer.chars, n + 1, Len(lexer.chars))
    IN  /\ (lexer.status = "scanning" /\ lexer.nesting = 0
            /\ starts("/", "*"))
           => lexer'.nesting = 1 /\ skips(2)
        /\ (lexer.status = "scanning" /\ lexer.nesting = 0
            /\ ~starts("/", "*"))
           => lexer'.nesting = 0
        /\ (lexer.status = "scanning" /\ lexer.nesting > 0)
           => /\ lexer'.tokens = lexer.tokens
              /\ IF lexer.chars = <<>>
                 THEN lexer'.status = "panicked"
                 ELSE /\ lexer'.status = "scanning"
                      /\ IF starts("/", "*")
                         THEN lexer'.nesting = lexer.nesting + 1 /\ skips(2)
                         ELSE IF starts("*", "/")
                         THEN lexer'.nesting = lexer.nesting - 1 /\ skips(2)
                         ELSE lexer'.nesting = lexer.nesting /\ skips(1)

\* C17: a block comment ends only when its nesting depth returns to zero:
\* after the opening /* the depth is 1, each /* inside raises it by one,
\* each */ lowers it by one, no token is produced from the characters in
\* between, tokenizing resumes with the character after the */ that brings
\* the depth to zero, and input that ends while the depth is above zero is
\* fatal.  So the tokens returned are made from the characters outside
\* every comment, and tokenize returns exactly when every comment is closed.
C17_BlockCommentNesting ==
    /\ [][C17_CommentStep]_vars
    /\ [](lexer.status \in {"done", "panicked"} /\ OfComments(lexer.source)
          => /\ (lexer.status = "done")
                 = Uncommented(lexer.source, 0).closed
             /\ lexer.status = "done"
                => TokenText(lexer.tokens)
                    = Uncommented(lexer.source, 0).text)

\* a comment nested in a comment was skipped and tokenizing resumed after it
C17_Witness ==
    /\ lexer.status = "done"
    /\ lexer.source = <<"a", " ", "/", "*", "b", "\n", "/", "*", "c", "*",
                        "/", "d", "*", "/", " ", "e">>
    /\ Len(lexer.tokens) = 2
    /\ lexer.tokens[2] = Token("Identifier", "e", 0, 2, 7)

(***************************************************************************)
(* Properties of parser::parse, checked under SpecParser.                  *)
(***************************************************************************)
\* the operators of an expression statement `a op b op c ... ;`
OperatorsOf(tokens) ==
    [i \in 1..((Len(tokens) - 2) \div 2) |-> tokens[2 * i].token_type]

IsExpression(tokens) ==
    /\ Len(tokens) >= 2
    /\ Len(tokens) % 2 = 0
    /\ \A i \in 1..Len(tokens) :
          IF i = Len(tokens) THEN tokens[i].token_type = "Semicolon"
          ELSE IF i % 2 = 1
          THEN tokens[i] = [token_type |-> "Identifier",
                            text |-> <<"a", "b", "c", "d", "e", "f",
                                       "g">>[(i + 1) \div 2],
                            n |-> 0, line |-> 1, column |-> 1]
          ELSE tokens[i].token_type \in
                  {"Or", "And", "EqualEqual", "LessThan", "Plus", "Minus",
                   "Multiply", "QuestionMark", "Colon"}

Count(ops, type, lo, hi) == Cardinality({i \in lo..hi : ops[i] = type})

\* every ':' closes a '?' before it and every '?' is closed
Balanced(ops) ==
    /\ \A i \in 1..Len(ops) :
          Count(ops, "Colon", 1, i) <= Count(ops, "QuestionMark", 1, i)
    /\ Count(ops, "Colon", 1, Len(ops))
        = Count(ops, "QuestionMark", 1, Len(ops))

Binding(type) ==
    CASE type = "Or" -> 1
      [] type = "And" -> 2
      [] type = "EqualEqual" -> 3
      [] type = "LessThan" -> 4
      [] type \in {"Plus", "Minus"} -> 5
      [] type = "Multiply" -> 6

Spelling(type) ==
    CASE type = "Or" -> "||"
      [] type = "And" -> "&&"
      [] type = "EqualEqual" -> "=="
      [] type = "LessThan" -> "<"
      [] type = "Plus" -> "+"
      [] type = "Minus" -> "-"
      [] type = "Multiply" -> "*"

\* the tree that precedence and associativity give the operands lo..hi of
\* a balanced expression, operator i standing between operands i and i + 1:
\* the first '?' with the ':' that closes it splits a conditional;
\* otherwise the last of the operators that bind least splits a binary
\* operation
RECURSIVE Grouping(_, _, _)
Grouping(ops, lo, hi) ==
    LET between == lo..(hi - 1)
        questions == {i \in between : ops[i] = "QuestionMark"}
        question == CHOOSE i \in questions : \A j \in questions : i <= j
        colons == {i \in (question + 1)..(hi - 1) :
                      Count(ops, "Colon", question + 1, i)
                       = Count(ops, "QuestionMark", question + 1, i) + 1}
        colon == CHOOSE i \in colons : \A j \in colons : i <= j
        least == {i \in between :
                     \A j \in between : Binding(ops[i]) <= Binding(ops[j])}
        last == CHOOSE i \in least : \A j \in least : j <= i
    IN  IF lo = hi
        THEN [k |-> "Identifier",
              s |-> <<"a", "b", "c", "d", "e", "f", "g">>[lo],
              n |-> 0, b |-> FALSE, kids |-> <<>>, body |-> <<>>,
              orelse |-> <<>>, params |-> <<>>]
        ELSE IF questions # {}
        THEN [k |-> "Conditional", s |-> "", n |-> 0, b |-> FALSE,
              kids |-> <<Grouping(ops, lo, question),
                         Grouping(ops, question + 1, colon),
                         Grouping(ops, colon + 1, hi)>>,
              body |-> <<>>, orelse |-> <<>>, params |-> <<>>]
        ELSE [k |-> "BinaryOp", s |-> Spelling(ops[last]), n |-> 0,
              b |-> FALSE,
              kids |-> <<Grouping(ops, lo, last),
                         Grouping(ops, last + 1, hi)>>,
              body |-> <<>>, orelse |-> <<>>, params |-> <<>>]

\* the AST of one expression statement
OneExpression(expr) ==
    <<[k |-> "ExpressionStatement", s |-> "", n |-> 0, b |-> FALSE,
       kids |-> <<expr>>, body |-> <<>>, orelse |-> <<>>, params |-> <<>>]>>

ParsedAs(tokens, expr) ==
    (parser.status = "done" /\ parser.parser.tokens = tokens)
    => parser.statements = OneExpression(expr)

\* C18: parse respects precedence and associativity: `1 + 2 * 3` parses as
\* (+ 1 (* 2 3)), `a || b && c` as (|| a (&& b c)), `a ? b : c ? d : e` as
\* (? a b (? c d e)), a chain of operators of one binary level groups to
\* the left (`a - b - c` as (- (- a b) c)), and every expression of up to
\* MaxOperators operators is parsed into the tree that precedence and
\* associativity give it, or is refused when its conditionals do not match.
C18_PrecedenceAndAssociativity ==
    /\ ParsedAs(<<Num(1), T("Plus"), Num(2), T("Multiply"), Num(3),
                  T("Semicolon")>>,
                BinaryOp("+", ExprNumber(1),
                         BinaryOp("*", ExprNumber(2), ExprNumber(3))))
    /\ ParsedAs(ExpressionTokens(<<"Or", "And">>),
                BinaryOp("||", Identifier("a"),
                         BinaryOp("&&", Identifier("b"), Identifier("c"))))
    /\ ParsedAs(ExpressionTokens(<<"QuestionMark", "Colon", "QuestionMark",
                                   "Colon">>),
                Conditional(Identifier("a"), Identifier("b"),
                            Conditional(Identifier("c"), Identifier("d"),
                                        Identifier("e"))))
    /\ ParsedAs(ExpressionTokens(<<"Minus", "Minus">>),
                BinaryOp("-", BinaryOp("-", Identifier("a"), Identifier("b")),
                         Identifier("c")))
    /\ (parser.status \in {"done", "panicked"}
        /\ IsExpression(parser.parser.tokens))
       => LET ops == OperatorsOf(parser.parser.tokens)
          IN  /\ (parser.status = "done") = Balanced(ops)
              /\ parser.status = "done"
                 => parser.statements
                     = OneExpression(Grouping(ops, 1, Len(ops) + 1))

\* the nested conditional of the spec was parsed
C18_Witness ==
    /\ parser.status = "done"
    /\ parser.parser.tokens
        = <<Ident("a"), T("QuestionMark"), Ident("b"), T("Colon"),
            Ident("c"), T("QuestionMark"), Ident("d"), T("Colon"),
            Ident("e"), T("Semicolon")>>
    /\ parser.statements
        = <<ExpressionStatement(
              Conditional(Identifier("a"), Identifier("b"),
                          Conditional(Identifier("c"), Identifier("d"),
                                      Identifier("e"))))>>

\* what is wrong with the function declaration the tokens start with: the
\* token after the name is not '(', two parameters follow each other
\* without a ',', the token after the ')' is not '{', or no '}' follows
IsDeclaration(tokens) ==
    /\ Len(tokens) >= 2
    /\ tokens[1].token_type = "Function"
    /\ tokens[2].token_type = "Identifier"

Malformed(tokens) ==
    LET type(i) == IF i <= Len(tokens) THEN tokens[i].token_type ELSE "None"
        closings == {i \in 3..Len(tokens) : type(i) = "RParen"}
        closing == IF closings = {} THEN Len(tokens) + 1
                   ELSE CHOOSE i \in closings : \A j \in closings : i <= j
    IN  \/ type(3) # "LParen"
        \/ \E i \in 4..(closing - 2) :
              type(i) = "Identifier" /\ type(i + 1) = "Identifier"
        \/ type(closing + 1) # "LBrace"
        \/ \A i \in (closing + 2)..Len(tokens) : type(i) # "RBrace"

\* C19: parse fails, and produces no AST, for a malformed function
\* declaration: a token other than '(' after the function name, a token
\* other than '{' before the body, parameters not separated by commas, or a
\* body that is not closed by '}' before the end of the tokens.
C19_MalformedDeclarationFails ==
    (/\ parser.status # "idle"
     /\ IsDeclaration(parser.parser.tokens)
     /\ Malformed(parser.parser.tokens))
    => parser.status # "done"

(***************************************************************************)
(* Properties of WasmGenerator::generate, checked under SpecWasm.          *)
(***************************************************************************)
\* the number of parentheses open after the first i items of a text
Depth(items, i) ==
    Cardinality({j \in 1..i : items[j] = "("})
    - Cardinality({j \in 1..i : items[j] = ")"})

\* the forms (word ...) that are children of the outermost form
Children(items, word) ==
    {i \in 1..(Len(items) - 1) :
        items[i] = "(" /\ items[i + 1] = word /\ Depth(items, i) = 2}

\* C20: for every IR module the text generate returns is a balanced
\* S-expression, every opened parenthesis closed, that is one (module ...)
\* holding one (func ...) per function of the module, and it holds exactly
\* one (export "main" ...) when a function named main is present and none
\* otherwise.
C20_WellFormedModule ==
    wasm.status = "done"
    => LET items == wasm.generator.output
       IN  /\ Len(items) >= 3
           /\ items[1] = "(" /\ items[2] = "module"
           /\ \A i \in 1..(Len(items) - 1) : Depth(items, i) >= 1
           /\ Depth(items, Len(items)) = 0
           /\ Cardinality(Children(items, "func"))
               = Len(wasm.module.functions)
           /\ Cardinality({i \in Children(items, "export") :
                              items[i + 2] = "\"main\""})
               = IF \E i \in 1..Len(wasm.module.functions) :
                       wasm.module.functions[i].name = "main"
                 THEN 1 ELSE 0

(***************************************************************************)
(* Properties of variables, the operand stack and jumps, checked under     *)
(* Spec.                                                                   *)
(***************************************************************************)
\* C22: a `let x = e` executed by a callee does not change what the caller
\* reads for its own variable x: after the Call returns, a Load of a
\* variable the caller assigned with Let before the call yields the value
\* the caller stored, also when caller and callee are the same function.
\* So main() of `function g() { let x = b; return 0; } function main()
\* { let x = a; g(); return x; }` returns a, and f(n) of `function f(n)
\* { let x = n; if (n > 0) { f(n - 1); } return x; }` returns n.
C22_CalleeLetKeepsCallerVariable ==
    status = "returned"
    => /\ \A a \in 1..2, b \in 1..2 :
             ast = <<[k |-> "FunctionDeclaration", s |-> "g", n |-> 0,
                      b |-> FALSE, kids |-> <<>>,
                      body |-> <<Let("x", ExprNumber(b)),
                                 ReturnSome(ExprNumber(0))>>,
                      orelse |-> <<>>, params |-> <<>>],
                     [k |-> "FunctionDeclaration", s |-> "main", n |-> 0,
                      b |-> FALSE, kids |-> <<>>,
                      body |-> <<Let("x", ExprNumber(a)),
                                 ExpressionStatement(
                                     FunctionCall("g", <<>>)),
                                 ReturnSome(Identifier("x"))>>,
                      orelse |-> <<>>, params |-> <<>>]>>
             => return_value = [t |-> "Number", n |-> a, s |-> "",
                                b |-> FALSE]
       /\ (entry.name = "f" /\ Len(ast) = 1 /\ ast[1].s = "f"
           /\ ast[1].body[1] = Let("x", Identifier("n")))
          => return_value = entry.args[1]

\* C26: lower_ast fails for the binary operator `%` and succeeds for every
\* other binary operator the parser can produce (+ - * / == != < <= > >=
\* && ||): lowering `function main(x, y) { return x op y; }` panics exactly
\* when op is `%`.
C26_OnlyModuloFailsToLower ==
    \A op \in {"+", "-", "*", "/", "%", "==", "!=", "<", "<=", ">", ">=",
               "&&", "||"} :
        (/\ status \notin {"parsed", "assembled"}
         /\ Len(ast) = 1
         /\ ast[1].body = <<ReturnSome(BinaryOp(op, Identifier("x"),
                                                Identifier("y")))>>)
        => (module.panicked <=> op = "%")

\* the current frame is about to execute an instruction of its prologue
C24_InPrologue(op, parity) ==
    /\ status = "running"
    /\ Len(frames) > 0
    /\ ast # <<>>
    /\ frames[Len(frames)].ip
           < 2 * Len(frames[Len(frames)].function.params)
    /\ frames[Len(frames)].ip % 2 = parity
    /\ frames[Len(frames)].function.instructions[
           frames[Len(frames)].ip + 1].op = op

\* C24: the prologue pair Load(param); Store(param) of a lowered function
\* is a no-op at run time, whatever the number of arguments passed: the
\* Load pushes one value and changes neither the frame's locals nor the
\* globals, and the Store pops it again and leaves the frame's locals and
\* the globals as they were, so that after the pair the locals, the globals
\* and the stack depth are what they were before it.
C24_ProloguePairIsNoOp ==
    [][/\ C24_InPrologue("Load", 0)
          => /\ Len(stack') = Len(stack) + 1
             /\ frames'[Len(frames)].locals = frames[Len(frames)].locals
             /\ globals' = globals
       /\ C24_InPrologue("Store", 1)
          => /\ Len(stack') = Len(stack) - 1
             /\ frames'[Len(frames)].locals = frames[Len(frames)].locals
             /\ globals' = globals]_vars

\* the position (from 0) of the first Label(label) among the instructions,
\* or -1
C25_LabelPosition(instructions, label) ==
    IF \E i \in 1..Len(instructions) :
           instructions[i].op = "Label" /\ instructions[i].s = label
    THEN (CHOOSE i \in 1..Len(instructions) :
             /\ instructions[i].op = "Label" /\ instructions[i].s = label
             /\ \A j \in 1..(i - 1) :
                    ~(instructions[j].op = "Label"
                      /\ instructions[j].s = label)) - 1
    ELSE -1

C25_Fetched(op) ==
    /\ status = "running"
    /\ Len(frames) > 0
    /\ frames[Len(frames)].ip
           < Len(frames[Len(frames)].function.instructions)
    /\ frames[Len(frames)].function.instructions[
           frames[Len(frames)].ip + 1].op = op

C25_Label ==
    frames[Len(frames)].function.instructions[frames[Len(frames)].ip + 1].s

\* C25: JumpIf(L) pops one value (the top of the stack; in lowered IR the
\* stack is never empty there, and on an empty stack the operand is taken
\* as Undefined); it sets the frame's instruction pointer to the position
\* of Label(L) iff the popped value is Boolean(true), and for every other
\* value (Boolean(false), Number(1), a non-empty String, ...) execution
\* falls through to the next instruction.  Jump(L) leaves the stack as it
\* is and always continues at Label(L).
C25_JumpSemantics ==
    [][/\ C25_Fetched("JumpIf")
          => LET frame == frames[Len(frames)]
                 position ==
                     C25_LabelPosition(frame.function.instructions,
                                       C25_Label)
                 popped == IF stack = <<>>
                           THEN [t |-> "Undefined", n |-> 0, s |-> "",
                                 b |-> FALSE]
                           ELSE stack[Len(stack)]
             IN  /\ ast # <<>> => Len(stack) > 0 /\ position >= 0
                 /\ stack # <<>>
                    => stack' = SubSeq(stack, 1, Len(stack) - 1)
                 /\ stack = <<>> => stack' = <<>>
                 /\ Len(frames') = Len(frames)
                 /\ frames'[Len(frames)].ip =
                        IF popped = [t |-> "Boolean", n |-> 0, s |-> "",
                                     b |-> TRUE]
                           /\ position >= 0
                        THEN position
                        ELSE frame.ip + 1
       /\ C25_Fetched("Jump")
          => LET frame == frames[Len(frames)]
                 position ==
                     C25_LabelPosition(frame.function.instructions,
                                       C25_Label)
             IN  /\ ast # <<>> => position >= 0
                 /\ stack' = stack
                 /\ Len(frames') = Len(frames)
                 /\ frames'[Len(frames)].ip =
                        IF position >= 0 THEN position ELSE frame.ip + 1]_vars

\* main(false, 1) of `function main(x, y) { return x && y; }`: the JumpIf
\* of the `&&` pops the copy of Number(1), falls through to the Pop, and
\* the function returns x
C25_Witness ==
    /\ status = "returned"
    /\ ast = ShortCircuitOperands("&&")
    /\ entry.args = <<ValueBoolean(FALSE), ValueNumber(1)>>
    /\ return_value = ValueBoolean(FALSE)

\* C23: in IR produced by lowering every expression leaves the operand
\* stack one value deeper and every statement leaves the depth unchanged,
\* on every execution path; so when a Return is fetched the depth above the
\* frame's stack_base is one if it returns a value (zero once that value is
\* popped) and zero if it returns none.
C23_BalancedAtReturn ==
    (/\ status = "running"
     /\ Len(frames) > 0
     /\ ast # <<>>
     /\ frames[Len(frames)].ip
            < Len(frames[Len(frames)].function.instructions)
     /\ frames[Len(frames)].function.instructions[
            frames[Len(frames)].ip + 1].op = "Return")
    => Len(stack) - frames[Len(frames)].stack_base
           = IF frames[Len(frames)].function.instructions[
                    frames[Len(frames)].ip + 1].flag
             THEN 1 ELSE 0

(***************************************************************************)
(* Properties of the assembler generators, checked under SpecCodegen.      *)
(***************************************************************************)
\* the instructions of all functions of a module, in order
RECURSIVE AllInstructions(_, _)
AllInstructions(fns, i) ==
    IF i > Len(fns) THEN <<>>
    ELSE fns[i].instructions \o AllInstructions(fns, i + 1)

IsPushOf(instruction, tag) ==
    instruction.op = "PushConst" /\ instruction.c.t = tag

\* the constants of a tag that the PushConst instructions of a module
\* push, in order
PushedConstants(ir_module, tag) ==
    LET pushes == SelectSeq(AllInstructions(ir_module.functions, 1),
                            LAMBDA instruction : IsPushOf(instruction, tag))
    IN  [k \in 1..Len(pushes) |-> pushes[k].c]

\* the spelling of a Number constant in a .double directive
DoubleText(constant) ==
    IF constant.s = "" THEN ToString(constant.n) ELSE constant.s

\* C21: for every PushConst(String) and PushConst(Number) of the module the
\* assembler text the x86-64 and the AArch64 generator return defines, in
\* its data section, the literal label the emitted instruction refers to
\* (str_i and float_i, .LCi and .LCDi), with the constant's value.
C21_LiteralsDefinedInData ==
    /\ (x64 # Idle /\ x64.status = "done")
       => /\ \A k \in 1..Len(PushedConstants(x64.module, "String")) :
                \E j \in 1..Len(x64.text) :
                    /\ x64.text[j].m = ".string"
                    /\ x64.text[j].x = "str_" \o ToString(k - 1)
                    /\ x64.text[j].y
                           = PushedConstants(x64.module, "String")[k].s
          /\ \A k \in 1..Len(PushedConstants(x64.module, "Number")) :
                \E j \in 1..Len(x64.text) :
                    /\ x64.text[j].m = ".double"
                    /\ x64.text[j].x = "float_" \o ToString(k - 1)
                    /\ x64.text[j].y
                           = DoubleText(
                                 PushedConstants(x64.module, "Number")[k])
    /\ (arm64 # Idle /\ arm64.status = "done")
       => /\ \A k \in 1..Len(PushedConstants(arm64.module, "String")) :
                \E j \in 1..(Len(arm64.text) - 1) :
                    /\ arm64.text[j].m = "label"
                    /\ arm64.text[j].x = ".LC" \o ToString(k - 1)
                    /\ arm64.text[j + 1].m = ".asciz"
                    /\ arm64.text[j + 1].x
                           = PushedConstants(arm64.module, "String")[k].s
          /\ \A k \in 1..Len(PushedConstants(arm64.module, "Number")) :
                \E j \in 1..(Len(arm64.text) - 1) :
                    /\ arm64.text[j].m = "label"
                    /\ arm64.text[j].x = ".LCD" \o ToString(k - 1)
                    /\ arm64.text[j + 1].m = ".double"
                    /\ arm64.text[j + 1].x
                           = DoubleText(
                                 PushedConstants(arm64.module, "Number")[k])

\* the instruction the x86-64 generator is about to translate
X64Translating(op) ==
    /\ x64.status = "functions"
    /\ x64.function <= Len(x64.module.functions)
    /\ x64.instruction >= 1
    /\ x64.module.functions[x64.function].instructions[x64.instruction].op
           = op

X64Instr ==
    x64.module.functions[x64.function].instructions[x64.instruction]

\* C27: for a Call(name, N) with N <= 6 the x86-64 caller leaves the i-th
\* argument where the callee's prologue reads its i-th parameter: the
\* prologue stores rdi, rsi, rdx, rcx, r8, r9 into the parameters' slots,
\* so the lines the caller emits for the Call must, before the `call`,
\* load the i-th of these registers with the i-th argument for every
\* i <= N (a `pop` or a `mov` into that register).
C27_ArgumentsReachRegisters ==
    [][(X64Translating("Call") /\ X64Instr.n \in 1..6)
          => LET old == Len(x64.generator.output)
                 new == x64'.generator.output
                 registers == <<"rdi", "rsi", "rdx", "rcx", "r8", "r9">>
             IN  \A i \in 1..X64Instr.n :
                     \E j \in (old + 1)..Len(new) :
                         /\ new[j].m \in {"pop", "mov", "movq"}
                         /\ new[j].x = registers[i]
                         /\ \E k \in (j + 1)..Len(new) : new[k].m = "call"
                         /\ \A k \in (old + 1)..j : new[k].m # "call"]_vars

\* what a line adds to rsp
RspEffect(line) ==
    CASE line.m = "push" -> -8
      [] line.m = "pop" -> 8
      [] line.m = "sub" /\ line.x = "rsp" -> -line.n
      [] line.m = "add" /\ line.x = "rsp" -> line.n
      [] OTHER -> 0

\* rsp before the line at `to`, relative to its value at the call site of
\* the function that starts at the line `from`, when the lines between
\* are executed in order; the call has pushed the return address
RECURSIVE RspBefore(_, _, _)
RspBefore(lines, from, to) ==
    IF to <= from THEN -8
    ELSE RspBefore(lines, from, to - 1) + RspEffect(lines[to - 1])

\* the lines from `from` up to `to` are executed one after the other: none
\* of them is a jump, a jump target or a return
StraightLine(lines, from, to) ==
    /\ lines[from].m = ".global"
    /\ \A k \in (from + 1)..(to - 1) :
           /\ lines[k].m \notin {"jmp", "jnz", "ret", ".global"}
           /\ lines[k].m = "label" => k = from + 1

\* C28: with rsp a multiple of 16 at the call site of a generated x86-64
\* function, rsp is a multiple of 16 at every `call` the function executes,
\* whatever max_locals, the operand depth and argc are.
C28_StackAlignedAtCall ==
    (x64 # Idle /\ x64.status = "functions")
    => \A to \in 1..Len(x64.generator.output) :
           x64.generator.output[to].m = "call"
           => \A from \in 1..to :
                  StraightLine(x64.generator.output, from, to)
                  => RspBefore(x64.generator.output, from, to) % 16 = 0

\* the machine after the loads `ldr reg, [sp], #8` that lines starts with:
\* each takes the top of the stack (the last element) into its register
RECURSIVE PopArguments(_, _, _)
PopArguments(lines, cells, registers) ==
    IF \/ lines = <<>>
       \/ cells = <<>>
       \/ ~(/\ Head(lines).m = "ldr"
            /\ Head(lines).y = "[sp]"
            /\ Head(lines).z = "post"
            /\ Head(lines).n = 8)
    THEN [lines |-> lines, cells |-> cells, registers |-> registers]
    ELSE PopArguments(
             Tail(lines),
             SubSeq(cells, 1, Len(cells) - 1),
             [r \in DOMAIN registers \cup {Head(lines).x} |->
                 IF r = Head(lines).x THEN cells[Len(cells)]
                 ELSE registers[r]])

Arm64Translating ==
    /\ arm64.status = "functions"
    /\ arm64.function <= Len(arm64.module.functions)

Arm64Instr ==
    arm64.module.functions[arm64.function].instructions[arm64.instruction]

\* the lines a step adds to the AArch64 output
Arm64Added ==
    SubSeq(arm64'.generator.output, Len(arm64.generator.output) + 1,
           Len(arm64'.generator.output))

\* the caller's side: run on a stack that holds the arguments 0, ..., N - 1
\* pushed left to right, the lines of a Call(name, N) leave argument k in
\* xk, have taken exactly the N cells, and then branch to _name and push x0
C29_CallerLoadsRegisters ==
    (/\ Arm64Translating
     /\ arm64.instruction >= 1
     /\ Arm64Instr.op = "Call"
     /\ Arm64Instr.n <= 8)
    => LET after == PopArguments(Arm64Added,
                                 [k \in 1..Arm64Instr.n |-> k - 1],
                                 [r \in {} |-> 0])
       IN  /\ after.cells = <<>>
           /\ DOMAIN after.registers
                  = {"x" \o ToString(k) : k \in 0..(Arm64Instr.n - 1)}
           /\ \A k \in 0..(Arm64Instr.n - 1) :
                  after.registers["x" \o ToString(k)] = k
           /\ after.lines
                  = <<[m |-> "bl", x |-> "_" \o Arm64Instr.s, y |-> "",
                       z |-> "", n |-> 0],
                      [m |-> "str", x |-> "x0", y |-> "[sp]", z |-> "!",
                       n |-> -8]>>

\* the callee's side: the prologue of a function of at most eight
\* parameters stores xk into the slot of its k-th parameter, the slot the
\* function's loads of that parameter read, before anything writes xk
C29_PrologueStoresRegisters ==
    (/\ Arm64Translating
     /\ arm64.instruction = 0
     /\ Len(arm64.module.functions[arm64.function].params) <= 8)
    => LET params == arm64.module.functions[arm64.function].params
       IN  \A k \in 1..Len(params) :
               \E j \in 1..Len(Arm64Added) :
                   /\ Arm64Added[j].m = "str"
                   /\ Arm64Added[j].x = "x" \o ToString(k - 1)
                   /\ Arm64Added[j].y = "[fp]"
                   /\ Arm64Added[j].z = ""
                   /\ (\A i \in (k + 1)..Len(params) : params[i] # params[k])
                      => Arm64Added[j].n
                             = arm64'.generator.local_offsets[params[k]]
                   /\ \A i \in 1..(j - 1) :
                          Arm64Added[i].x = "x" \o ToString(k - 1)
                          => Arm64Added[i].m = "str"

\* C29: for a Call(name, N) with N <= 8 the AArch64 caller pops the
\* arguments so that the k-th argument, counted from 0 left to right, ends
\* in xk (the top of the stack becomes x(N-1)), and the callee's prologue
\* stores its k-th parameter from xk.
C29_ArgumentsReachRegisters ==
    [][C29_CallerLoadsRegisters /\ C29_PrologueStoresRegisters]_vars

\* the text returned for `function g(u, v, w) ...  function main(a) {
\* ... return g(a, "s", t + 2); }`: g's prologue stores x2 into the slot of
\* w, and main's call pops x2, x1, x0 and branches to _g
C29_Witness ==
    /\ arm64 # Idle
    /\ arm64.status = "done"
    /\ Len(arm64.module.functions) = 2
    /\ arm64.module.functions[1].params = <<"u", "v", "w">>
    /\ \E j \in 1..Len(arm64.text) :
           arm64.text[j] = [m |-> "str", x |-> "x2", y |-> "[fp]",
                            z |-> "", n |-> -24]
    /\ \E j \in 4..Len(arm64.text) :
           /\ arm64.text[j].m = "bl"
           /\ arm64.text[j].x = "_g"
           /\ arm64.text[j - 1].x = "x0"
           /\ arm64.text[j - 2].x = "x1"
           /\ arm64.text[j - 3].x = "x2"

\* the lines that define a label: `name:` lines, and in the x86-64 text
\* the data directives, which carry their label on the same line
X64DefinesLabel(line) == line.m \in {"label", ".string", ".double"}
Arm64DefinesLabel(line) == line.m = "label"

DefinedOnce(lines, Defines(_)) ==
    \A i \in 1..Len(lines) : \A j \in (i + 1)..Len(lines) :
        (Defines(lines[i]) /\ Defines(lines[j])) => lines[i].x # lines[j].x

\* C30: in the x86-64 and the AArch64 text generated for a lowered module
\* no label name is defined more than once in the whole output: the labels
\* of different functions never collide.
C30_LabelsDefinedOnce ==
    /\ (x64 # Idle /\ x64.status = "done") => DefinedOnce(x64.text, X64DefinesLabel)
    /\ (arm64 # Idle /\ arm64.status = "done") => DefinedOnce(arm64.text, Arm64DefinesLabel)

====
